---------------------------- MODULE Spec2Model ----------------------------
(***************************************************************************)
(* Model of lsd.strip (Image, Strip, Animation), of the frame generators   *)
(* of lsd.visuals used by Animation, and of the modifiers of lsd.modifiers *)
(* that Image.composite applies.                                           *)
(*                                                                         *)
(* Numbers.  Colour channels, opacities and indices are Python / numpy     *)
(* floats.  They are modelled as exact rationals <<num, den>> (den > 0,    *)
(* lowest terms).  All inputs are drawn from dyadic values (integers,      *)
(* halves, quarters), for which the float arithmetic of the code is exact  *)
(* within the bounds of the model.                                         *)
(*                                                                         *)
(* Objects.  Every Image / Strip / Animation is an entry of objs, named by *)
(* its position.  The opacity array of an image is a separate numpy array  *)
(* object: objs[i].opa is a reference into opas, so that two images can    *)
(* share one opacity array, as Animation.__next_frame__ makes them do.     *)
(***************************************************************************)
EXTENDS Integers, Sequences, FiniteSets, TLC

VARIABLES
    objs,      \* heap of Image objects: Seq of records, named by position
    opas,      \* heap of opacity arrays: Seq of Seq of rationals
    gens,      \* frame generators (lsd.visuals): Seq of records
    RUNNING,   \* lsd.visuals.RUNNING
    ret,       \* the last call: operation, arguments, result or exception
    nwrites,   \* number of writes made so far that blend into the pixel data
    play,      \* the call of Animation.play in progress and where it stands
    emu        \* the emulated driver, its display process and their pipe

vars == <<objs, opas, gens, RUNNING, ret, nwrites, play, emu>>

---------------------------------------------------------------------------
(* Bounds of the model *)

MaxObjs == 3        \* objects created by the graph specification
MaxShapeObjs == 2   \* objects created by the shape specification
MaxLen == 2         \* pixel counts are 1..MaxLen
MaxPix == 3         \* pixels of the image of the indexing specifications
MaxWrites == 1      \* blending writes per behaviour
MaxMods == 3        \* modifiers in the list of an image
MaxDepth == 2       \* images in a chain of backgrounds
MaxSent == 2        \* frames a strip sends in the showing specification
MaxBlink == 2       \* on_frames and off_frames of blink are 1..MaxBlink
MaxShown == 9       \* frames a strip sends in the blinking specification
MaxNew == 4         \* pixel counts of the construction specification
MaxFrames == 3      \* frames the emulated driver sends

---------------------------------------------------------------------------
(* Exact arithmetic standing for float arithmetic *)

Abs(x) == IF x < 0 THEN -x ELSE x

RECURSIVE GCD(_, _)
GCD(a, b) == IF b = 0 THEN a ELSE GCD(b, a % b)

Norm(num, den) ==
    IF num = 0 THEN <<0, 1>>
    ELSE LET g == GCD(Abs(num), den) IN <<num \div g, den \div g>>

R(k) == <<k, 1>>
Q(a, b) == Norm(a, b)
RAdd(x, y) == Norm(x[1] * y[2] + y[1] * x[2], x[2] * y[2])
RSub(x, y) == Norm(x[1] * y[2] - y[1] * x[2], x[2] * y[2])
RMul(x, y) == Norm(x[1] * y[1], x[2] * y[2])
RLt(x, y) == x[1] * y[2] < y[1] * x[2]
RLe(x, y) == x[1] * y[2] <= y[1] * x[2]
RAbs(x) == <<Abs(x[1]), x[2]>>

\* math.floor of a float
Floor(x) == x[1] \div x[2]
\* int(float): truncation toward zero
Trunc(x) == IF x[1] >= 0 THEN x[1] \div x[2] ELSE -((-x[1]) \div x[2])
\* float % 1 in Python: the result has the sign of the divisor, in [0, 1)
Mod1(x) == RSub(x, R(Floor(x)))
\* numpy.clip(x, lo, hi) on one value
clip(x, lo, hi) == IF RLt(x, lo) THEN lo ELSE IF RLt(hi, x) THEN hi ELSE x

\* channel-wise arithmetic on one colour <<r, g, b>>
CScale(c, w) == [ch \in 1..3 |-> RMul(c[ch], w)]
CAdd(c, d) == [ch \in 1..3 |-> RAdd(c[ch], d[ch])]
Col(r, g, b) == <<R(r), R(g), R(b)>>

black == Col(0, 0, 0)
MAIN_COLOR == Col(0, 255, 180)

---------------------------------------------------------------------------
(* Objects *)

\* a background is an Image (ref # 0, the object's name) or an ndarray (val)
ImgBg(i) == [ref |-> i, val |-> <<>>]
ArrBg(a) == [ref |-> 0, val |-> a]

\* numpy.tile(array(color), (n, 1))
tile(color, n) == [k \in 1..n |-> color]
\* numpy.full(n, value)
full(n, value) == [k \in 1..n |-> value]

\* no call of Animation.play is in progress
NoPlay == [pc |-> "idle", anim |-> 0, strip |-> 0, max_dur |-> FALSE,
           pos |-> 0, sent |-> 0]

\* no emulated driver has been constructed; frames are named by their number
\* in the order of sending, data = 0 standing for None
NoEmu == [driver |-> "none", display |-> "off", to_driver |-> <<>>,
          to_display |-> <<>>, sent |-> 0, data |-> 0, rendered |-> <<>>,
          open |-> FALSE]

\* the record of a call; its arguments and its value are kept under the name
\* of the operation, so that records of different operations can be compared
Ret(op, self, arg, exc, val) ==
    [op |-> op, self |-> self, arg |-> [o \in {op} |-> arg], exc |-> exc,
     val |-> [o \in {op} |-> val]]
NoRet == Ret("none", 0, 0, "None", 0)

\* the arguments and the value of the last call
ret_arg == ret.arg[ret.op]
ret_val == ret.val[ret.op]

\* objects made by callers, as opposed to the frames a generator holds
UserObjs == {i \in 1..Len(objs) : objs[i].owner = 0}
ObjsOf(cls) == {i \in UserObjs : objs[i].cls = cls}

\* len(bg) for a background argument
BgLen(b) == IF b.ref # 0 THEN objs[b.ref].n ELSE Len(b.val)

\* Image.bg_stack: the instance, its background and, when that is an Image,
\* the background's own stack (the tuple repeats every inner Image)
RECURSIVE bg_stack(_)
bg_stack(i) ==
    IF objs[i].bg.ref # 0
    THEN <<ImgBg(i), objs[i].bg>> \o bg_stack(objs[i].bg.ref)
    ELSE <<ImgBg(i), objs[i].bg>>

\* isinstance(entry, cls) for an entry of a background stack
IsInstance(entry, classes) == entry.ref # 0 /\ objs[entry.ref].cls \in classes

\* The check of the bg setter without the walk along the candidate's stack:
\* only the candidate itself is compared with self and tested for Strip.
bg_setter_check_shallow(self, bg_instance) ==
    IF bg_instance.ref # 0
    THEN IF bg_instance.ref = self THEN "ValueError"
         ELSE IF objs[bg_instance.ref].cls = "Strip" THEN "ValueError"
         ELSE "None"
    ELSE "None"

\* The check of the bg setter: the exception it raises, or "None".
\* self = 0 is an object under construction, not yet known to anybody.
bg_setter_check(self, bg_instance) ==
    IF bg_instance.ref # 0
    THEN LET stack == bg_stack(bg_instance.ref) IN
         IF \E k \in 1..Len(stack) : stack[k].ref # 0 /\ stack[k].ref = self
         THEN "ValueError"
         ELSE IF \E k \in 1..Len(stack) : IsInstance(stack[k], {"Strip"})
         THEN "ValueError"
         ELSE "None"
    ELSE "None"

\* a single colour given as background argument (is_color_value)
ColBg(c) == [ref |-> -1, val |-> <<c>>]

\* the pixels argument of Image: an int, or image data
PixInt(k) == [int |-> TRUE, k |-> k, data |-> <<>>]
PixData(d) == [int |-> FALSE, k |-> Len(d), data |-> d]

\* the opa argument of Image: one number, or a sequence of numbers
OpaNum(x) == [num |-> TRUE, v |-> <<x>>]
OpaSeq(s) == [num |-> FALSE, v |-> s]

\* a construction that admits an image without pixels
Image_new_exc_lenient(pixels, bg, opa) ==
    IF pixels.int /\ ~(pixels.k >= 0) THEN "AssertionError"
    ELSE IF bg.ref > 0 /\ BgLen(bg) # pixels.k THEN "AssertionError"
    ELSE IF bg.ref > 0 /\ bg_setter_check(0, bg) # "None"
         THEN bg_setter_check(0, bg)
    ELSE IF bg.ref = 0 /\ Len(bg.val) # pixels.k THEN "AssertionError"
    ELSE IF ~opa.num /\ Len(opa.v) # pixels.k THEN "AssertionError"
    ELSE "None"

\* Image.__new__: the exception the construction ends with, or "None"
Image_new_exc(pixels, bg, opa) ==
    IF pixels.int /\ ~(pixels.k > 0) THEN "AssertionError"
    ELSE IF bg.ref > 0 /\ BgLen(bg) # pixels.k THEN "AssertionError"
    ELSE IF bg.ref > 0 /\ bg_setter_check(0, bg) # "None"
         THEN bg_setter_check(0, bg)
    ELSE IF bg.ref = 0 /\ Len(bg.val) # pixels.k THEN "AssertionError"
    ELSE IF ~opa.num /\ Len(opa.v) # pixels.k THEN "AssertionError"
    ELSE "None"

\* Image.__new__, followed by Strip.__init__ or Animation.__init__: the new
\* object; opaRef names its new opacity array, visual its generator
Image_new_obj(cls, pixels, bg, auto_opa, opaRef, visual, playback) ==
    [cls |-> cls,
     n |-> pixels.k,
     data |-> IF pixels.int THEN tile(black, pixels.k) ELSE pixels.data,
     opa |-> opaRef,
     bg |-> IF bg.ref = -1 THEN ArrBg(tile(bg.val[1], pixels.k)) ELSE bg,
     modifiers |-> <<>>,
     auto_opa_mode |-> auto_opa,
     playback |-> IF cls = "Animation" THEN playback ELSE FALSE,
     visual |-> IF cls = "Animation" THEN visual ELSE 0,
     displayed |-> IF cls = "Strip" THEN tile(<<0, 0, 0>>, pixels.k) ELSE <<>>,
     driver |-> IF cls = "Strip" THEN tile(<<0, 0, 0>>, pixels.k) ELSE <<>>,
     sent |-> IF cls = "Strip" THEN <<tile(<<0, 0, 0>>, pixels.k)>> ELSE <<>>,
     owner |-> 0]

\* the opacity array Image.__new__ makes
Image_new_opa(pixels, opa) ==
    IF opa.num THEN full(pixels.k, opa.v[1]) ELSE opa.v

\* a generator function of lsd.visuals called with leds: the generator object,
\* whose body has not started
NewGen(kind, leds, on_frames, off_frames) ==
    [kind |-> kind, leds |-> leds, on_frames |-> on_frames,
     off_frames |-> off_frames, started |-> FALSE, done |-> FALSE,
     frames |-> <<>>, pos |-> 0]

\* Image(pixels, bg, opa, auto_opa=...) and Strip(...) with the same arguments;
\* ret_val keeps the pixels argument
New(cls, pixels, bg, opa, auto_opa) ==
    LET exc == Image_new_exc(pixels, bg, opa) IN
    /\ cls \in {"Image", "Strip"}
    /\ IF exc = "None"
       THEN /\ objs' = Append(objs, Image_new_obj(cls, pixels, bg, auto_opa,
                                                  Len(opas) + 1, 0, FALSE))
            /\ opas' = Append(opas, Image_new_opa(pixels, opa))
            /\ ret' = Ret("new", Len(objs) + 1, cls, exc, pixels)
       ELSE /\ UNCHANGED <<objs, opas>>
            /\ ret' = Ret("new", 0, cls, exc, pixels)
    /\ UNCHANGED <<gens, RUNNING, nwrites, play, emu>>

\* Animation(visual=<generator function>, pixels=..., bg=...): the function is
\* called with leds = self.n
NewAnimation(kind, on_frames, off_frames, pixels, bg, playback) ==
    LET exc == Image_new_exc(pixels, bg, OpaNum(R(1))) IN
    /\ IF exc = "None"
       THEN /\ objs' = Append(objs, Image_new_obj("Animation", pixels, bg, FALSE,
                                       Len(opas) + 1, Len(gens) + 1, playback))
            /\ opas' = Append(opas, Image_new_opa(pixels, OpaNum(R(1))))
            /\ gens' = Append(gens, NewGen(kind, pixels.k, on_frames, off_frames))
            /\ ret' = Ret("new", Len(objs) + 1, "Animation", exc, pixels)
       ELSE /\ UNCHANGED <<objs, opas, gens>>
            /\ ret' = Ret("new", 0, "Animation", exc, pixels)
    /\ UNCHANGED <<RUNNING, nwrites, play, emu>>

\* an assignment that stores the background before it is checked
SetBg_unchecked(self, bg_instance) ==
    LET exc == bg_setter_check(self, bg_instance) IN
    /\ objs' = [objs EXCEPT ![self].bg = bg_instance]
    /\ ret' = Ret("bg", self, bg_instance, exc, 0)
    /\ UNCHANGED <<opas, gens, RUNNING, nwrites, play, emu>>

\* image.bg = bg_instance
SetBg(self, bg_instance) ==
    LET exc == bg_setter_check(self, bg_instance) IN
    /\ objs' = IF exc = "None"
               THEN [objs EXCEPT ![self].bg = bg_instance]
               ELSE objs
    /\ ret' = Ret("bg", self, bg_instance, exc, 0)
    /\ UNCHANGED <<opas, gens, RUNNING, nwrites, play, emu>>

---------------------------------------------------------------------------
(* Indexing: Image.__getitem__ / __setitem__ and the subpixel variants *)

\* lsd.FLOAT_PRECISION is 1 / FLOAT_PRECISION_INV
FLOAT_PRECISION_INV == 1000000

\* abs(x) < FLOAT_PRECISION, i.e. |num| * FLOAT_PRECISION_INV < den
BelowPrecision(x) == Abs(x[1]) <= (x[2] - 1) \div FLOAT_PRECISION_INV
\* abs(x) > FLOAT_PRECISION, i.e. |num| * FLOAT_PRECISION_INV > den
AbovePrecision(x) == Abs(x[1]) > x[2] \div FLOAT_PRECISION_INV

\* lsd.typing.is_black_color
is_black_color(color) == \A ch \in 1..3 : BelowPrecision(color[ch])

\* an int k indexes an array of length len when -len <= k < len
InRange(len, k) == -len <= k /\ k < len
\* the position (from 1) that the int index k names
Pos(len, k) == IF k >= 0 THEN k + 1 ELSE len + k + 1

\* the index of the neighbour: clip(idx + (1 if idx >= 0 else -1), -n, n-1)
Neighbour(n, idx) ==
    clip(RAdd(idx, IF RLe(R(0), idx) THEN R(1) ELSE R(-1)), R(-n), R(n - 1))

\* Image.__getsubitem__: the exception, or "None"
getsubitem_exc(o, idx) ==
    IF InRange(o.n, Trunc(idx)) THEN "None" ELSE "IndexError"

\* Image.__getsubitem__: the colour returned
getsubitem(o, idx) ==
    LET _idx == Neighbour(o.n, idx) IN
    IF Trunc(idx) = Trunc(_idx) \/ R(Trunc(idx)) = idx
    THEN o.data[Pos(o.n, Trunc(idx))]
    ELSE CAdd(CScale(o.data[Pos(o.n, Trunc(idx))], RAbs(RSub(R(1), Mod1(idx)))),
              CScale(o.data[Pos(o.n, Trunc(_idx))], RAbs(Mod1(idx))))

\* a store that wraps an index outside the array instead of failing
StoreData_wrap(st, k, v) ==
    IF st.exc # "None" THEN st
    ELSE [st EXCEPT !.data[(k % Len(st.data)) + 1] = v]

\* one array store, as part of a sequence of stores that stops at the first
\* IndexError: st is [exc, data, opa]
StoreData(st, k, v) ==
    IF st.exc # "None" THEN st
    ELSE IF ~InRange(Len(st.data), k) THEN [st EXCEPT !.exc = "IndexError"]
    ELSE [st EXCEPT !.data[Pos(Len(st.data), k)] = v]

StoreOpa(st, k, x) ==
    IF st.exc # "None" THEN st
    ELSE IF ~InRange(Len(st.opa), k) THEN [st EXCEPT !.exc = "IndexError"]
    ELSE [st EXCEPT !.opa[Pos(Len(st.opa), k)] = x]

\* a fractional write that blends black into the pixels in auto opacity mode
\* as well
setsubitem_blend_black(o, opa, idx, value) ==
    LET st0 == [exc |-> "None", data |-> o.data, opa |-> opa]
        int_idx == Trunc(idx)
        int_i_idx == Trunc(Neighbour(o.n, idx))
        pct_idx == RAbs(Mod1(idx))
        pct_i_idx == RSub(R(1), pct_idx)
        \* auto opacity mode, a colour written onto black pixels
        a1 == IF o.auto_opa_mode /\ is_black_color(st0.data[Pos(o.n, int_idx)])
              THEN StoreOpa(StoreData(st0, int_idx, value), int_idx, pct_i_idx)
              ELSE st0
        a2 == IF o.auto_opa_mode /\ a1.exc = "None"
                 /\ is_black_color(a1.data[Pos(o.n, int_i_idx)])
              THEN StoreOpa(StoreData(a1, int_i_idx, value), int_i_idx, pct_idx)
              ELSE a1
        \* normal behaviour
        s1 == IF a2.exc # "None" THEN a2
              ELSE StoreData(a2, int_idx,
                       CAdd(CScale(a2.data[Pos(o.n, int_idx)], pct_idx),
                            CScale(value, pct_i_idx)))
        s2 == IF s1.exc # "None" THEN s1
              ELSE StoreData(s1, int_i_idx,
                       CAdd(CScale(s1.data[Pos(o.n, int_i_idx)], pct_i_idx),
                            CScale(value, pct_idx)))
    IN  IF R(int_idx) = idx THEN StoreData(st0, int_idx, value)
        ELSE IF ~InRange(o.n, int_idx) THEN [st0 EXCEPT !.exc = "IndexError"]
        ELSE s2

\* Image.__setsubitem__: the exception and the pixel data and opacity array
\* it leaves; opa is the opacity array of the image
setsubitem(o, opa, idx, value) ==
    LET st0 == [exc |-> "None", data |-> o.data, opa |-> opa]
        int_idx == Trunc(idx)
        int_i_idx == Trunc(Neighbour(o.n, idx))
        pct_idx == RAbs(Mod1(idx))
        pct_i_idx == RSub(R(1), pct_idx)
        \* auto opacity mode, a colour written onto black pixels
        a1 == IF o.auto_opa_mode /\ is_black_color(st0.data[Pos(o.n, int_idx)])
              THEN StoreOpa(StoreData(st0, int_idx, value), int_idx, pct_i_idx)
              ELSE st0
        a2 == IF o.auto_opa_mode /\ a1.exc = "None"
                 /\ is_black_color(a1.data[Pos(o.n, int_i_idx)])
              THEN StoreOpa(StoreData(a1, int_i_idx, value), int_i_idx, pct_idx)
              ELSE a1
        \* normal behaviour
        s1 == IF a2.exc # "None" THEN a2
              ELSE StoreData(a2, int_idx,
                       CAdd(CScale(a2.data[Pos(o.n, int_idx)], pct_idx),
                            CScale(value, pct_i_idx)))
        s2 == IF s1.exc # "None" THEN s1
              ELSE StoreData(s1, int_i_idx,
                       CAdd(CScale(s1.data[Pos(o.n, int_i_idx)], pct_i_idx),
                            CScale(value, pct_idx)))
    IN  IF R(int_idx) = idx THEN StoreData(st0, int_idx, value)
        ELSE IF o.auto_opa_mode /\ is_black_color(value)
        THEN StoreOpa(StoreOpa(st0, int_idx, pct_idx), int_i_idx, pct_i_idx)
        ELSE IF ~InRange(o.n, int_idx) THEN [st0 EXCEPT !.exc = "IndexError"]
        ELSE s2

\* image[idx] with a float idx
GetSubItem(self, idx) ==
    /\ ret' = Ret("getsubitem", self, idx, getsubitem_exc(objs[self], idx),
                  IF getsubitem_exc(objs[self], idx) = "None"
                  THEN getsubitem(objs[self], idx) ELSE <<>>)
    /\ UNCHANGED <<objs, opas, gens, RUNNING, nwrites, play, emu>>

\* image[idx] = value with a float idx; ret_val keeps the pixel data and the
\* opacity array as they were before the call
SetSubItem(self, idx, value) ==
    LET st == setsubitem(objs[self], opas[objs[self].opa], idx, value) IN
    /\ objs' = [objs EXCEPT ![self].data = st.data]
    /\ opas' = [opas EXCEPT ![objs[self].opa] = st.opa]
    /\ ret' = Ret("setsubitem", self, <<idx, value>>, st.exc,
                  [data |-> objs[self].data, opa |-> opas[objs[self].opa]])
    /\ nwrites' = nwrites + 1
    /\ UNCHANGED <<gens, RUNNING, play, emu>>

---------------------------------------------------------------------------
(* Composite: auto opacity, blending with the background, modifiers *)

\* an auto_opa that takes only pixels that are exactly 0 for black
auto_opa_exact(o, opa) ==
    [k \in 1..o.n |->
        IF o.data[k] = black THEN R(0)
        ELSE IF (\E ch \in 1..3 : AbovePrecision(o.data[k][ch]))
                /\ RLt(opa[k], <<1, FLOAT_PRECISION_INV>>) THEN R(1)
        ELSE opa[k]]

\* Image.auto_opa: the opacity array it leaves (boolean masks over the pixels;
\* the mask that sets 1 is applied first, the mask that sets 0 second)
auto_opa(o, opa) ==
    [k \in 1..o.n |->
        IF \A ch \in 1..3 : BelowPrecision(o.data[k][ch]) THEN R(0)
        ELSE IF (\E ch \in 1..3 : AbovePrecision(o.data[k][ch]))
                /\ RLt(opa[k], <<1, FLOAT_PRECISION_INV>>) THEN R(1)
        ELSE opa[k]]

\* lsd.modifiers: the modifiers that callers put into the list.  "shift" is
\* the function shift(img, n) itself, put into the list without wrap(): the
\* call mod(real_img) lacks the argument n and raises TypeError.
Modifiers == {"reverse", "invert", "shift", "wrap_shift_1"}

\* the exception mod(img) raises, or "None"
mod_exc(mod) == IF mod = "shift" THEN "TypeError" ELSE "None"

\* modifiers that return the image they are given
mod_apply_identity(mod, img) == img

\* the image mod(img) returns
mod_apply(mod, img) ==
    CASE mod = "reverse" -> [k \in 1..Len(img) |-> img[Len(img) + 1 - k]]
      [] mod = "invert" ->
            [k \in 1..Len(img) |-> [ch \in 1..3 |-> RSub(R(255), img[k][ch])]]
      [] mod = "wrap_shift_1" ->
            [k \in 1..Len(img) |-> img[IF k = 1 THEN Len(img) ELSE k - 1]]
      [] OTHER -> img

\* a loop over the modifiers that ends at the first modifier that raises
RECURSIVE apply_modifiers_abort(_, _)
apply_modifiers_abort(mods, real_img) ==
    IF mods = <<>> \/ mod_exc(Head(mods)) # "None" THEN real_img
    ELSE apply_modifiers_abort(Tail(mods), mod_apply(Head(mods), real_img))

\* the loop over self._modifiers of Image.composite: a modifier that raises
\* is logged and real_img stays as it is
RECURSIVE apply_modifiers(_, _)
apply_modifiers(mods, real_img) ==
    IF mods = <<>> THEN real_img
    ELSE apply_modifiers(Tail(mods),
            IF mod_exc(Head(mods)) = "None"
            THEN mod_apply(Head(mods), real_img)
            ELSE real_img)

\* numpy broadcasting of rows: an array of len rows read at row k
Bx(a, k) == IF Len(a) = 1 THEN a[1] ELSE a[k]
\* the number of rows of a broadcast of a and b rows, 0 when they do not fit
BxRows(a, b) == IF a = b \/ b = 1 THEN a ELSE IF a = 1 THEN b ELSE 0

\* a blend that gives the background the weight opa
blend_swapped(data, opa, bg_img) ==
    [k \in 1..BxRows(Len(data), Len(bg_img)) |->
        CAdd(CScale(Bx(data, k), RSub(R(1), Bx(opa, k))),
             CScale(Bx(bg_img, k), Bx(opa, k)))]

\* add(multiply(self[:], opa), multiply(bg_img, 1 - opa)), opa reshaped (n, 1)
blend(data, opa, bg_img) ==
    [k \in 1..BxRows(Len(data), Len(bg_img)) |->
        CAdd(CScale(Bx(data, k), Bx(opa, k)),
             CScale(Bx(bg_img, k), RSub(R(1), Bx(opa, k))))]

\* Image.composite of object i, computed on the opacity arrays oh: the
\* exception or the image, and the opacity arrays the call leaves (auto_opa
\* of every object of the chain whose auto opacity mode is enabled)
RECURSIVE composite(_, _)
composite(i, oh) ==
    LET o == objs[i]
        masked == o.auto_opa_mode /\ Len(oh[o.opa]) # o.n
        oh1 == IF o.auto_opa_mode /\ ~masked
               THEN [oh EXCEPT ![o.opa] = auto_opa(o, oh[o.opa])]
               ELSE oh
        below == IF o.bg.ref # 0 THEN composite(o.bg.ref, oh1)
                 ELSE [exc |-> "None", val |-> o.bg.val, opas |-> oh1]
        opa == below.opas[o.opa]
    IN  IF masked
        THEN [exc |-> "IndexError", val |-> <<>>, opas |-> oh]
        ELSE IF Len(oh1[o.opa]) # o.n
        THEN [exc |-> "ValueError", val |-> <<>>, opas |-> oh1]
        ELSE IF below.exc # "None" THEN below
        ELSE IF BxRows(o.n, Len(below.val)) = 0
        THEN [exc |-> "ValueError", val |-> <<>>, opas |-> below.opas]
        ELSE [exc |-> "None",
              val |-> apply_modifiers(o.modifiers, blend(o.data, opa, below.val)),
              opas |-> below.opas]

\* list.insert(idx, x)
list_insert(list, idx, x) ==
    LET i0 == IF idx < 0 THEN idx + Len(list) ELSE idx
        i == IF i0 < 0 THEN 0 ELSE IF i0 > Len(list) THEN Len(list) ELSE i0
    IN  SubSeq(list, 1, i) \o <<x>> \o SubSeq(list, i + 1, Len(list))

\* list.pop(idx), the list it leaves
list_pop(list, idx) ==
    LET i == IF idx < 0 THEN idx + Len(list) ELSE idx
    IN  SubSeq(list, 1, i) \o SubSeq(list, i + 2, Len(list))

\* image.composite (image.cmp)
Composite(self) ==
    LET res == composite(self, opas) IN
    /\ opas' = res.opas
    /\ ret' = Ret("composite", self, 0, res.exc, res.val)
    /\ UNCHANGED <<objs, gens, RUNNING, nwrites, play, emu>>

\* a composite that hands out the image's own pixels
real_img_base_view(i) == i

\* the object whose pixel memory real_img and the array that composite
\* returns share, 0 for none: add(multiply(...), multiply(...)) makes a new
\* array, the modifiers are given that array, and array(real_img) is a copy
real_img_base(i) == 0

\* cmp = image.composite; cmp[key] = value (likewise a modifier that writes
\* into the real_img it is given): the write reaches the memory of the array
CompositeWrite(self, key, value) ==
    /\ \E res \in {composite(self, opas)}, base \in {real_img_base(self)} :
         /\ opas' = res.opas
         /\ objs' = IF res.exc = "None" /\ base # 0
                       /\ InRange(objs[base].n, key)
                    THEN [objs EXCEPT
                            ![base].data[Pos(objs[base].n, key)] = value]
                    ELSE objs
         /\ ret' = Ret("composite_write", self, <<key, value>>, res.exc,
                       res.val)
    /\ UNCHANGED <<gens, RUNNING, nwrites, play, emu>>

\* image.add_modifier(modifier, idx); ret_val keeps the list as it was
add_modifier(self, modifier, idx) ==
    /\ objs' = [objs EXCEPT
                  ![self].modifiers = list_insert(@, idx, modifier)]
    /\ ret' = Ret("add_modifier", self, <<modifier, idx>>, "None",
                  objs[self].modifiers)
    /\ UNCHANGED <<opas, gens, RUNNING, nwrites, play, emu>>

\* image.add_modifier(modifier): idx has its default, -1
AddModifier(self, modifier) == add_modifier(self, modifier, -1)

\* image.remove_modifier(idx)
RemoveModifier(self, idx) ==
    LET ok == InRange(Len(objs[self].modifiers), idx) IN
    /\ objs' = IF ok
               THEN [objs EXCEPT ![self].modifiers = list_pop(@, idx)]
               ELSE objs
    /\ ret' = Ret("remove_modifier", self, idx,
                  IF ok THEN "None" ELSE "IndexError", 0)
    /\ UNCHANGED <<opas, gens, RUNNING, nwrites, play, emu>>

---------------------------------------------------------------------------
(* Editing: integer indices, fill, set, clear, auto_opa as a call *)

\* an optional argument: None, or a value
None == <<>>
Some(v) == <<v>>

\* the pixel data and the opacity array of image self, before a call changes
\* them
Content(self) == [data |-> objs[self].data, opa |-> opas[objs[self].opa]]

\* image[key] with an int key: ndarray.__getitem__, viewed as ndarray
GetItem(self, key) ==
    /\ ret' = IF InRange(Len(objs[self].data), key)
              THEN Ret("getitem", self, key, "None",
                       objs[self].data[Pos(Len(objs[self].data), key)])
              ELSE Ret("getitem", self, key, "IndexError", <<>>)
    /\ UNCHANGED <<objs, opas, gens, RUNNING, nwrites, play, emu>>

\* image[key] = value with an int key and a colour: ndarray.__setitem__;
\* ret_val keeps the content as it was
SetItem(self, key, value) ==
    /\ \E st \in {StoreData([exc |-> "None", data |-> objs[self].data,
                             opa |-> opas[objs[self].opa]], key, value)} :
         /\ objs' = [objs EXCEPT ![self].data = st.data]
         /\ ret' = Ret("setitem", self, <<key, value>>, st.exc, Content(self))
    /\ UNCHANGED <<opas, gens, RUNNING, nwrites, play, emu>>

\* lsd.typing.is_color_value of an optional colour: len(None) raises
\* TypeError, which is_color_value answers with False
is_color_value(color) == color # None

\* Image.fill(color, opa): st is [exc, data, opa]
fill(st, color, opa) ==
    IF ~is_color_value(color) THEN [st EXCEPT !.exc = "AssertionError"]
    ELSE [st EXCEPT
            !.data = IF color = None THEN @ ELSE tile(color[1], Len(@)),
            !.opa = IF opa = None THEN @
                    ELSE full(Len(@), clip(opa[1], R(0), R(1)))]

\* Image.set(idx, col, opa) with an int idx
set(st, idx, col, opa) ==
    IF ~is_color_value(col) THEN [st EXCEPT !.exc = "AssertionError"]
    ELSE LET stored == IF col = None THEN st
                       ELSE StoreData(st, idx, col[1])
         IN  IF opa = None THEN stored
             ELSE StoreOpa(stored, idx, clip(opa[1], R(0), R(1)))

\* Image.clear()
clear(st) ==
    [st EXCEPT !.data = tile(black, Len(@)), !.opa = full(Len(@), R(1))]

\* an edit that a strip displays at once
Edit_shown(op, self, arg, st) ==
    /\ objs' = [objs EXCEPT
                  ![self].data = st.data,
                  ![self].displayed =
                      IF objs[self].cls = "Strip"
                      THEN [k \in 1..Len(st.data) |->
                              [ch \in 1..3 |-> Trunc(st.data[k][ch])]]
                      ELSE @]
    /\ opas' = [opas EXCEPT ![objs[self].opa] = st.opa]
    /\ ret' = Ret(op, self, arg, st.exc, Content(self))
    /\ UNCHANGED <<gens, RUNNING, nwrites, play, emu>>

\* a call that edits the content of image self and leaves st; ret_val keeps
\* the content as it was
Edit(op, self, arg, st) ==
    /\ objs' = [objs EXCEPT ![self].data = st.data]
    /\ opas' = [opas EXCEPT ![objs[self].opa] = st.opa]
    /\ ret' = Ret(op, self, arg, st.exc, Content(self))
    /\ UNCHANGED <<gens, RUNNING, nwrites, play, emu>>

\* image.fill(color, opa)
Fill(self, color, opa) ==
    \E st \in {fill([exc |-> "None", data |-> objs[self].data,
                     opa |-> opas[objs[self].opa]], color, opa)} :
        Edit("fill", self, <<color, opa>>, st)

\* image.set(idx, col, opa)
Set(self, idx, col, opa) ==
    \E st \in {set([exc |-> "None", data |-> objs[self].data,
                    opa |-> opas[objs[self].opa]], idx, col, opa)} :
        Edit("set", self, <<idx, col, opa>>, st)

\* image.clear()
Clear(self) ==
    \E st \in {clear([exc |-> "None", data |-> objs[self].data,
                      opa |-> opas[objs[self].opa]])} :
        Edit("clear", self, 0, st)

\* image.auto_opa()
AutoOpa(self) ==
    \E st \in {[exc |-> "None", data |-> objs[self].data,
                opa |-> auto_opa(objs[self], opas[objs[self].opa])]} :
        Edit("auto_opa", self, 0, st)

---------------------------------------------------------------------------
(* Generators of lsd.visuals and the frame update of animations *)

\* the part of the state a frame update works on
Heap == [objs |-> objs, opas |-> opas, gens |-> gens]

\* Image(leds, opa=opa) followed by fill(color), inside generator g
frame_img(g, leds, color, opa, opaRef) ==
    [Image_new_obj("Image", PixInt(leds), ColBg(black), FALSE, opaRef, 0, FALSE)
        EXCEPT !.data = tile(color, leds), !.owner = g]

\* the code of a generator up to its first loop: the images it works with
gen_start(g, h) ==
    LET gen == h.gens[g]
        no == Len(h.objs)
        na == Len(h.opas)
    IN  IF gen.started THEN h
        ELSE IF gen.kind = "binary_count"
        THEN [objs |-> Append(h.objs,
                        frame_img(g, gen.leds, MAIN_COLOR, R(1), na + 1)),
              opas |-> Append(h.opas, full(gen.leds, R(1))),
              gens |-> [h.gens EXCEPT ![g].started = TRUE,
                                      ![g].frames = <<no + 1>>]]
        ELSE [objs |-> h.objs \o
                       <<frame_img(g, gen.leds, MAIN_COLOR, R(1), na + 1),
                         frame_img(g, gen.leds, black, R(0), na + 2)>>,
              opas |-> h.opas \o <<full(gen.leds, R(1)), full(gen.leds, R(0))>>,
              gens |-> [h.gens EXCEPT ![g].started = TRUE,
                                      ![g].frames = <<no + 1, no + 2>>]]

\* (number >> shift) & 1
Bit(number, shift) == (number \div (2 ^ shift)) % 2

\* next(g) when g has ended: StopIteration
gen_stop(g, h) ==
    [objs |-> h.objs, opas |-> h.opas,
     gens |-> [h.gens EXCEPT ![g].done = TRUE], frame |-> 0]

\* the loop of binary_count up to its next yield, img being its one image
binary_count_next(g, h, gen, img) ==
    IF gen.pos >= 2 ^ gen.leds \/ ~RUNNING THEN gen_stop(g, h)
    ELSE [objs |-> h.objs,
          opas |-> [h.opas EXCEPT ![h.objs[img].opa] =
                      [p \in 1..Len(@) |->
                          IF p <= gen.leds THEN R(Bit(gen.pos, gen.leds - p))
                          ELSE @[p]]],
          gens |-> [h.gens EXCEPT ![g].pos = @ + 1],
          frame |-> img]

\* a blink whose 'on' state lasts one frame longer
blink_next_late(g, h, gen) ==
    IF gen.pos = 0 /\ ~RUNNING THEN gen_stop(g, h)
    ELSE [objs |-> h.objs, opas |-> h.opas,
          gens |-> [h.gens EXCEPT ![g].pos =
                      (@ + 1) % (gen.on_frames + gen.off_frames)],
          frame |-> IF gen.pos <= gen.on_frames
                    THEN gen.frames[1] ELSE gen.frames[2]]

\* the loops of blink up to the next yield; pos counts the frames of one
\* round of "while RUNNING"
blink_next(g, h, gen) ==
    IF gen.pos = 0 /\ ~RUNNING THEN gen_stop(g, h)
    ELSE [objs |-> h.objs, opas |-> h.opas,
          gens |-> [h.gens EXCEPT ![g].pos =
                      (@ + 1) % (gen.on_frames + gen.off_frames)],
          frame |-> IF gen.pos < gen.on_frames
                    THEN gen.frames[1] ELSE gen.frames[2]]

\* the generator's code from where it stands to its next yield or its end
gen_resume(g, h) ==
    IF h.gens[g].kind = "binary_count"
    THEN binary_count_next(g, h, h.gens[g], h.gens[g].frames[1])
    ELSE blink_next(g, h, h.gens[g])

\* next(g): frame is the image the generator yields, 0 when it raises
\* StopIteration; objs, opas, gens are what the call leaves
gen_next(g, h) ==
    IF h.gens[g].done THEN gen_stop(g, h) ELSE gen_resume(g, gen_start(g, h))

\* a frame update that leaves playback as it is when the generator is exhausted
take_frame_ignoring_stop(i, r) ==
    IF r.frame = 0
    THEN [objs |-> r.objs, opas |-> r.opas, gens |-> r.gens,
          exc |-> "None", stopped |-> {i}]
    ELSE [objs |-> [r.objs EXCEPT
                      ![i].opa = r.objs[r.frame].opa,
                      ![i].data = [k \in 1..Len(@) |->
                                      Bx(r.objs[r.frame].data, k)]],
          opas |-> r.opas, gens |-> r.gens,
          exc |-> "None", stopped |-> {}]

\* the try statement of Animation.__next_frame__, r being what next(visual)
\* gave: the frame's opacity array becomes the animation's, then the frame's
\* colours are copied; StopIteration switches playback off
take_frame(i, r) ==
    IF r.frame = 0
    THEN [objs |-> [r.objs EXCEPT ![i].playback = FALSE],
          opas |-> r.opas, gens |-> r.gens,
          exc |-> "None", stopped |-> {i}]
    ELSE IF Len(r.objs[r.frame].data) \in {Len(r.objs[i].data), 1}
    THEN [objs |-> [r.objs EXCEPT
                      ![i].opa = r.objs[r.frame].opa,
                      ![i].data = [k \in 1..Len(@) |->
                                      Bx(r.objs[r.frame].data, k)]],
          opas |-> r.opas, gens |-> r.gens,
          exc |-> "None", stopped |-> {}]
    ELSE [objs |-> [r.objs EXCEPT ![i].opa = r.objs[r.frame].opa],
          opas |-> r.opas, gens |-> r.gens,
          exc |-> "ValueError", stopped |-> {}]

\* a frame update that takes two frames from the generator
pull_twice(i, h) ==
    LET first == take_frame(i, gen_next(h.objs[i].visual, h)) IN
    IF h.objs[i].cls = "Animation" /\ h.objs[i].playback
    THEN IF first.exc # "None" \/ first.stopped # {} THEN first
         ELSE take_frame(i, gen_next(h.objs[i].visual, first))
    ELSE [objs |-> h.objs, opas |-> h.opas, gens |-> h.gens,
          exc |-> "None", stopped |-> {}]

\* "if self.playback:" of Animation.__next_frame__
pull(i, h) ==
    IF h.objs[i].cls = "Animation" /\ h.objs[i].playback
    THEN take_frame(i, gen_next(h.objs[i].visual, h))
    ELSE [objs |-> h.objs, opas |-> h.opas, gens |-> h.gens,
          exc |-> "None", stopped |-> {}]

RECURSIVE next_frame(_, _, _)

\* a frame update that a stopped animation does not pass on
pass_on_playing(i, own, update_bg) ==
    IF own.exc # "None" \/ own.objs[i].bg.ref = 0
       \/ (own.objs[i].cls = "Animation"
           /\ (~update_bg \/ ~own.objs[i].playback))
    THEN own
    ELSE [next_frame(own.objs[i].bg.ref, own, TRUE)
            EXCEPT !.stopped = @ \cup own.stopped]

\* "if update_bg and isinstance(self.bg, Image): self.bg.__next_frame__()",
\* own being what the object's own update left
pass_on(i, own, update_bg) ==
    IF own.exc # "None" \/ own.objs[i].bg.ref = 0
       \/ (own.objs[i].cls = "Animation" /\ ~update_bg)
    THEN own
    ELSE [next_frame(own.objs[i].bg.ref, own, TRUE)
            EXCEPT !.stopped = @ \cup own.stopped]

\* Image.__next_frame__ and Animation.__next_frame__(update_bg) of object i:
\* what the call leaves, the exception it ends with, and the animations whose
\* generator raised StopIteration
next_frame(i, h, update_bg) == pass_on(i, pull(i, h), update_bg)

\* what a frame update can change of object i
Shown(i) ==
    [data |-> objs[i].data, opa |-> opas[objs[i].opa],
     playback |-> objs[i].playback,
     done |-> IF objs[i].cls = "Animation" THEN gens[objs[i].visual].done
              ELSE FALSE]

\* image.__next_frame__(); ret_val keeps the animations that were told of the
\* end of their generator and what the objects were before the call
NextFrame(self, update_bg) ==
    /\ \E res \in {next_frame(self, Heap, update_bg)} :
         /\ objs' = res.objs
         /\ opas' = res.opas
         /\ gens' = res.gens
         /\ ret' = Ret("next_frame", self, update_bg, res.exc,
                       [stopped |-> res.stopped,
                        before |-> [i \in 1..Len(objs) |-> Shown(i)]])
    /\ UNCHANGED <<RUNNING, nwrites, play, emu>>

\* a set_playback that starts the generator's count anew when it enables
SetPlayback_restart(self, enabled) ==
    /\ objs[self].cls = "Animation"
    /\ objs' = [objs EXCEPT ![self].playback = enabled]
    /\ gens' = [gens EXCEPT ![objs[self].visual].pos =
                  IF enabled THEN 0 ELSE @]
    /\ ret' = Ret("set_playback", self, enabled, "None", 0)
    /\ UNCHANGED <<opas, RUNNING, nwrites, play, emu>>

\* animation.set_playback(enabled)
SetPlayback(self, enabled) ==
    /\ objs[self].cls = "Animation"
    /\ objs' = [objs EXCEPT ![self].playback = enabled]
    /\ ret' = Ret("set_playback", self, enabled, "None", 0)
    /\ UNCHANGED <<opas, gens, RUNNING, nwrites, play, emu>>

\* lsd.visuals.RUNNING = value
SetRunning(value) ==
    /\ RUNNING' = value
    /\ ret' = Ret("RUNNING", 0, value, "None", 0)
    /\ UNCHANGED <<objs, opas, gens, nwrites, play, emu>>

---------------------------------------------------------------------------
(* Strip.show *)

\* what a build makes of a float outside 0..255 that is cast to uint8
Casts == {"wrap", "zero_below", "saturate"}

\* ndarray.astype('uint8') on one float: the fraction is dropped; a value
\* that then lies outside 0..255 has no defined result: builds wrap it modulo
\* 256, or give 0 for a negative one and wrap the others, or saturate it
astype_uint8(x, cast) ==
    LET t == Trunc(x) IN
    IF 0 <= t /\ t <= 255 THEN t
    ELSE IF t < 0 THEN (IF cast = "wrap" THEN t % 256 ELSE 0)
    ELSE IF cast = "saturate" THEN 255 ELSE t % 256

\* clip(img.composite.astype('uint8'), 0, 255)
show_frame(img, cast) ==
    [k \in 1..Len(img) |->
        [ch \in 1..3 |->
            clip(R(astype_uint8(img[k][ch], cast)), R(0), R(255))[1]]]

\* a show whose driver sends its pixels before the frame is written to them
show_store_flush_first(self, frame) ==
    IF Len(frame) \in {Len(objs[self].driver), 1}
    THEN [objs EXCEPT
            ![self].displayed = frame,
            ![self].driver = [k \in 1..Len(@) |-> Bx(frame, k)],
            ![self].sent = Append(@, objs[self].driver)]
    ELSE [objs EXCEPT ![self].displayed = frame]

\* self._displayed = frame; self.strip_driver[:] = frame;
\* self.strip_driver.show(), which sends the driver's pixels to the display.
\* An assignment that cannot be broadcast raises and nothing is sent.
show_store(self, frame) ==
    IF Len(frame) \in {Len(objs[self].driver), 1}
    THEN [objs EXCEPT
            ![self].displayed = frame,
            ![self].driver = [k \in 1..Len(@) |-> Bx(frame, k)],
            ![self].sent = Append(@, [k \in 1..Len(objs[self].driver) |->
                                         Bx(frame, k)])]
    ELSE [objs EXCEPT ![self].displayed = frame]

\* a show that advances the chain whatever advance says
show_advancing(self, advance, img, cast) ==
    \E target \in {IF img = 0 THEN self ELSE img} :
    \E cmp \in {composite(target, opas)} :
    \E frame \in {show_frame(cmp.val, cast)} :
    \E stored \in {show_store(self, frame)} :
        IF cmp.exc # "None"
        THEN /\ opas' = cmp.opas
             /\ ret' = Ret("show", self, <<advance, img>>, cmp.exc, <<>>)
             /\ UNCHANGED <<objs, gens>>
        ELSE IF Len(cmp.val) \notin {objs[self].n, 1}
        THEN /\ objs' = stored
             /\ opas' = cmp.opas
             /\ ret' = Ret("show", self, <<advance, img>>, "ValueError",
                           cmp.val)
             /\ UNCHANGED gens
        ELSE \E res \in {next_frame(target,
                           [objs |-> stored, opas |-> cmp.opas,
                            gens |-> gens], TRUE)} :
               /\ objs' = res.objs
               /\ opas' = res.opas
               /\ gens' = res.gens
               /\ ret' = Ret("show", self, <<advance, img>>, res.exc,
                             cmp.val)

\* the body of Strip.show(advance=advance, img=img), img = 0 standing for
\* None; ret_val keeps the composite that was shown
show(self, advance, img, cast) ==
    \E target \in {IF img = 0 THEN self ELSE img} :
    \E cmp \in {composite(target, opas)} :
    \E frame \in {show_frame(cmp.val, cast)} :
    \E stored \in {show_store(self, frame)} :
        IF cmp.exc # "None"
        THEN /\ opas' = cmp.opas
             /\ ret' = Ret("show", self, <<advance, img>>, cmp.exc, <<>>)
             /\ UNCHANGED <<objs, gens>>
        ELSE IF Len(cmp.val) \notin {objs[self].n, 1}
        THEN /\ objs' = stored
             /\ opas' = cmp.opas
             /\ ret' = Ret("show", self, <<advance, img>>, "ValueError",
                           cmp.val)
             /\ UNCHANGED gens
        ELSE IF ~advance
        THEN /\ objs' = stored
             /\ opas' = cmp.opas
             /\ ret' = Ret("show", self, <<advance, img>>, "None", cmp.val)
             /\ UNCHANGED gens
        ELSE \E res \in {next_frame(target,
                           [objs |-> stored, opas |-> cmp.opas,
                            gens |-> gens], TRUE)} :
               /\ objs' = res.objs
               /\ opas' = res.opas
               /\ gens' = res.gens
               /\ ret' = Ret("show", self, <<advance, img>>, res.exc,
                             cmp.val)

\* strip.show(advance=advance, img=img)
Show(self, advance, img, cast) ==
    /\ objs[self].cls = "Strip"
    /\ show(self, advance, img, cast)
    /\ UNCHANGED <<RUNNING, nwrites, play, emu>>

\* animation.play(strip, fps, max_dur) up to its loop: the assertion on fps,
\* the warning, set_playback(True).  play keeps, for the call, how many frames
\* the generator had yielded and the strip had sent when it began.
Play(self, strip, fps, max_dur) ==
    /\ objs[self].cls = "Animation" /\ objs[strip].cls = "Strip"
    /\ play.pc # "loop"
    /\ IF fps > 0
       THEN /\ objs' = [objs EXCEPT ![self].playback = TRUE]
            /\ play' = [pc |-> "loop", anim |-> self, strip |-> strip,
                        max_dur |-> max_dur,
                        pos |-> gens[objs[self].visual].pos,
                        sent |-> Len(objs[strip].sent)]
            /\ ret' = Ret("play", self, <<strip, fps, max_dur>>, "None", 0)
       ELSE /\ ret' = Ret("play", self, <<strip, fps, max_dur>>,
                          "AssertionError", 0)
            /\ UNCHANGED <<objs, play>>
    /\ UNCHANGED <<opas, gens, RUNNING, nwrites, emu>>

\* one test of "while self.playback:" in play and, when it holds, the body of
\* the loop: strip.show(img=self, dur=delay), then the test of max_dur,
\* elapsed telling whether the time is over.  An exception of show ends play.
PlayLoop(cast, elapsed) ==
    /\ play.pc = "loop"
    /\ IF objs[play.anim].playback
       THEN /\ show(play.strip, TRUE, play.anim, cast)
            /\ play' = [play EXCEPT !.pc =
                          IF ret'.exc # "None" THEN "raised"
                          ELSE IF play.max_dur /\ elapsed THEN "done"
                          ELSE "loop"]
       ELSE /\ ~elapsed
            /\ play' = [play EXCEPT !.pc = "done"]
            /\ UNCHANGED <<objs, opas, gens, ret>>
    /\ UNCHANGED <<RUNNING, nwrites, emu>>

---------------------------------------------------------------------------
(* The emulated driver (lsd.utils.emulation): NeoPixel, its Display process
   and the pipe between them *)

\* the parts of the model the emulation does not touch
core == <<objs, opas, gens, RUNNING, ret, nwrites, play>>

\* NeoPixel.__new__ up to "obj.pipe_conn.recv()": the pixel array, Pipe() and
\* the start of the process that runs Display
NeoPixel_new ==
    /\ emu.driver = "none"
    /\ emu' = [emu EXCEPT !.driver = "await", !.display = "setup"]
    /\ UNCHANGED core

\* Display.__init__ up to its loop: the plot window, then
\* pipe_conn.send("$!Setup finished"); a failure to make the window ends the
\* process before anything is sent
Display_init ==
    /\ emu.display = "setup"
    /\ \/ emu' = [emu EXCEPT !.to_driver = Append(@, "$!Setup finished"),
                             !.display = "idle", !.open = TRUE]
       \/ emu' = [emu EXCEPT !.display = "closed"]
    /\ UNCHANGED core

\* a constructor that does not wait for the display
NeoPixel_await_eager ==
    /\ emu.driver = "await"
    /\ emu' = [emu EXCEPT !.to_driver = IF @ = <<>> THEN @ ELSE Tail(@),
                          !.driver = "handshaken"]
    /\ UNCHANGED core

\* "obj.pipe_conn.recv()  # Await Display setup": recv blocks while the pipe
\* is empty.  The constructor itself still holds the display's end of the
\* pipe, so the death of the display does not end the wait.
NeoPixel_await ==
    /\ emu.driver = "await"
    /\ emu.to_driver # <<>>
    /\ emu' = [emu EXCEPT !.to_driver = Tail(@), !.driver = "handshaken"]
    /\ UNCHANGED core

\* NeoPixel.show: pipe_conn.send(data), data a new array made of the pixels;
\* BrokenPipeError (the display's end is closed) ends the program.  The first
\* show is the last statement of the constructor, which returns after it;
\* there the display's end is still held by the constructor and send succeeds.
NeoPixel_show ==
    /\ emu.driver \in {"handshaken", "ready"}
    /\ emu.sent < MaxFrames
    /\ emu' = IF emu.driver = "ready" /\ emu.display = "closed"
              THEN [emu EXCEPT !.driver = "exited"]
              ELSE [emu EXCEPT !.sent = @ + 1,
                               !.to_display = Append(@, emu.sent + 1),
                               !.driver = "ready"]
    /\ UNCHANGED core

\* NeoPixel.close: pipe_conn.close()
NeoPixel_close ==
    /\ emu.driver = "ready"
    /\ emu' = [emu EXCEPT !.driver = "closed"]
    /\ UNCHANGED core

\* the driver's end of the pipe is closed
DriverGone == emu.driver \in {"exited", "closed"}

\* a visualize that keeps the first pending frame it receives
Display_visualize_first ==
    /\ \/ /\ emu.display = "idle" /\ emu.open
          /\ emu' = [emu EXCEPT !.data = 0, !.display = "drain"]
       \/ /\ emu.display = "idle" /\ ~emu.open
          /\ emu' = [emu EXCEPT !.display = "closed"]
       \/ /\ emu.display = "drain" /\ emu.to_display # <<>>
          /\ emu' = [emu EXCEPT !.data = IF @ = 0 THEN Head(emu.to_display)
                                         ELSE @,
                                !.to_display = Tail(@)]
       \/ /\ emu.display = "drain" /\ emu.to_display = <<>>
          /\ emu' = [emu EXCEPT !.display = "render"]
       \/ /\ emu.display = "drain" /\ DriverGone
          /\ emu' = [emu EXCEPT !.open = FALSE, !.display = "idle"]
       \/ /\ emu.display = "render"
          /\ \E close \in BOOLEAN :
               emu' = [emu EXCEPT
                         !.rendered = IF emu.data # 0 THEN Append(@, emu.data)
                                      ELSE @,
                         !.open = IF emu.data # 0 /\ close THEN FALSE ELSE @,
                         !.display = "idle"]
    /\ UNCHANGED core

\* one step of the loop "while self._open: self.visualize()" of the display
\* process.  idle: the test of the loop, then "data = None"; drain: one turn
\* of "while self.pipe_conn.poll(): data = self.pipe_conn.recv()", where a
\* closed driver end goes unnoticed or raises BrokenPipeError (closeEvent,
\* return), at once or after pending frames were received, as the platform
\* has it; render: "if data is not None", the
\* plot update, in whose flush_events a close of the window by the user
\* (closeEvent) is handled.
Display_visualize ==
    /\ \/ /\ emu.display = "idle" /\ emu.open
          /\ emu' = [emu EXCEPT !.data = 0, !.display = "drain"]
       \/ /\ emu.display = "idle" /\ ~emu.open
          /\ emu' = [emu EXCEPT !.display = "closed"]
       \/ /\ emu.display = "drain" /\ emu.to_display # <<>>
          /\ emu' = [emu EXCEPT !.data = Head(emu.to_display),
                                !.to_display = Tail(@)]
       \/ /\ emu.display = "drain" /\ emu.to_display = <<>>
          /\ emu' = [emu EXCEPT !.display = "render"]
       \/ /\ emu.display = "drain" /\ DriverGone
          /\ emu' = [emu EXCEPT !.open = FALSE, !.display = "idle"]
       \/ /\ emu.display = "render"
          /\ \E close \in BOOLEAN :
               emu' = [emu EXCEPT
                         !.rendered = IF emu.data # 0 THEN Append(@, emu.data)
                                      ELSE @,
                         !.open = IF emu.data # 0 /\ close THEN FALSE ELSE @,
                         !.display = "idle"]
    /\ UNCHANGED core

---------------------------------------------------------------------------
(* Specification of the background graph: constructions and assignments *)

white == Col(255, 255, 255)

InitEmpty ==
    /\ objs = <<>>
    /\ opas = <<>>
    /\ gens = <<>>
    /\ RUNNING = TRUE
    /\ ret = NoRet
    /\ nwrites = 0
    /\ play = NoPlay
    /\ emu = NoEmu

\* the objects of this specification all have MaxLen pixels (or are refused
\* with 0 pixels); a background is the default colour, an existing object of
\* any class or, in an assignment, a static array of MaxLen pixels
GraphNewBgs == {ColBg(black)} \cup {ImgBg(j) : j \in UserObjs}

GraphSetBgs == {ImgBg(j) : j \in UserObjs} \cup {ArrBg(tile(white, MaxLen))}

NextGraph ==
    \/ \E cls \in {"Image", "Strip"}, k \in {0, MaxLen}, bg \in GraphNewBgs :
           /\ Len(objs) < MaxObjs
           /\ New(cls, PixInt(k), bg, OpaNum(R(1)), FALSE)
    \/ \E k \in {0, MaxLen}, bg \in GraphNewBgs :
           /\ Len(objs) < MaxObjs
           /\ NewAnimation("blink", 1, 1, PixInt(k), bg, TRUE)
    \/ \E self \in UserObjs, bg \in GraphSetBgs :
           SetBg(self, bg)

SpecGraph == InitEmpty /\ [][NextGraph]_vars

(* Specification of background shapes: objects and static arrays of every
   length 1..MaxLen *)

ShapeSetBgs ==
    {ImgBg(j) : j \in UserObjs} \cup {ArrBg(tile(white, m)) : m \in 1..MaxLen}

NextShape ==
    \/ \E cls \in {"Image", "Strip"}, k \in 1..MaxLen,
          bg \in GraphNewBgs \cup {ArrBg(tile(white, m)) : m \in 1..MaxLen} :
           /\ Len(objs) < MaxShapeObjs
           /\ New(cls, PixInt(k), bg, OpaNum(R(1)), FALSE)
    \/ \E self \in UserObjs, bg \in ShapeSetBgs :
           SetBg(self, bg)

SpecShape == InitEmpty /\ [][NextShape]_vars

---------------------------------------------------------------------------
(* Specifications of indexing: one image, read or written at float indices *)

Palette == {black, MAIN_COLOR}

\* the float indices k/4 from -(n+1) to n+1
Idxs(n) == {Q(q, 4) : q \in (-4 * (n + 1))..(4 * (n + 1))}

\* Image(data, auto_opa=auto) with 1 or MaxPix pixels of the palette
InitPixel ==
    /\ \E n \in {1, MaxPix}, auto \in BOOLEAN :
         \E data \in [1..n -> Palette] :
            /\ objs = <<Image_new_obj("Image", PixData(data), ColBg(black),
                                      auto, 1, 0, FALSE)>>
            /\ opas = <<Image_new_opa(PixData(data), OpaNum(R(1)))>>
    /\ gens = <<>>
    /\ RUNNING = TRUE
    /\ ret = NoRet
    /\ nwrites = 0
    /\ play = NoPlay
    /\ emu = NoEmu

NextGet ==
    \E idx \in Idxs(objs[1].n) : GetSubItem(1, idx)

SpecGet == InitPixel /\ [][NextGet]_vars

NextSet ==
    \E idx \in Idxs(objs[1].n), value \in Palette :
        /\ nwrites < MaxWrites
        /\ SetSubItem(1, idx, value)

SpecSet == InitPixel /\ [][NextSet]_vars

---------------------------------------------------------------------------
(* Specification of the modifier list: one image, its list and composite *)

\* Image(data) with MaxPix pixels of the palette
InitMods ==
    /\ \E data \in [1..MaxPix -> Palette] :
         /\ objs = <<Image_new_obj("Image", PixData(data), ColBg(black),
                                   FALSE, 1, 0, FALSE)>>
         /\ opas = <<Image_new_opa(PixData(data), OpaNum(R(1)))>>
    /\ gens = <<>>
    /\ RUNNING = TRUE
    /\ ret = NoRet
    /\ nwrites = 0
    /\ play = NoPlay
    /\ emu = NoEmu

NextMods ==
    \/ \E m \in Modifiers :
           /\ Len(objs[1].modifiers) < MaxMods
           /\ AddModifier(1, m)
    \/ \E m \in Modifiers, idx \in 0..MaxMods :
           /\ Len(objs[1].modifiers) < MaxMods
           /\ add_modifier(1, m, idx)
    \/ \E idx \in {-1, 0} : RemoveModifier(1, idx)
    \/ Composite(1)

SpecMods == InitMods /\ [][NextMods]_vars

---------------------------------------------------------------------------
(* Specification of blending: a chain of images of MaxLen pixels *)

Opacities == {R(0), Q(1, 2), R(1)}

\* what is varied in an image below the top of the chain: its modifiers, its
\* auto opacity mode and its opacity
LowerKinds == {<<"plain", FALSE, Q(1, 2)>>, <<"invert", FALSE, R(1)>>,
               <<"plain", TRUE, R(0)>>}

\* Image(data, bg, opa, auto_opa), then add_modifier for each of mods
ImageWith(data, bg, auto, opaRef, mods) ==
    [Image_new_obj("Image", PixData(data), bg, auto, opaRef, 0, FALSE)
        EXCEPT !.modifiers = mods]

\* objs[1] has a static white background; objs[k] has objs[k-1] as background; the
\* last object is the top of the chain
InitChain ==
    /\ \E lower \in [1..(MaxDepth - 1) -> LowerKinds],
          data \in [1..MaxLen -> Palette],
          opa \in [1..MaxLen -> Opacities],
          auto \in BOOLEAN :
         /\ objs = [k \in 1..MaxDepth |->
                IF k < MaxDepth
                THEN ImageWith(tile(MAIN_COLOR, MaxLen),
                        IF k = 1 THEN ColBg(white) ELSE ImgBg(k - 1),
                        lower[k][2], k,
                        IF lower[k][1] = "invert"
                        THEN <<"invert">> ELSE <<>>)
                ELSE ImageWith(data,
                        IF k = 1 THEN ColBg(white) ELSE ImgBg(k - 1),
                        auto, k, <<>>)]
         /\ opas = [k \in 1..MaxDepth |->
                IF k < MaxDepth THEN full(MaxLen, lower[k][3]) ELSE opa]
    /\ gens = <<>>
    /\ RUNNING = TRUE
    /\ ret = NoRet
    /\ nwrites = 0
    /\ play = NoPlay
    /\ emu = NoEmu

NextChain ==
    \E self \in 1..Len(objs) : Composite(self)

SpecChain == InitChain /\ [][NextChain]_vars

---------------------------------------------------------------------------
(* Specification of animations: a generator, an animation, an image above *)

Visuals == {"binary_count", "blink"}

\* g = visual(leds=leds); anim = Animation(visual=g, pixels=n,
\* playback=playback); Image(n, bg=anim)
InitAnim ==
    /\ \E kind \in Visuals, leds \in 1..MaxLen, n \in 1..MaxLen,
          playback \in BOOLEAN :
         /\ gens = <<NewGen(kind, leds, 1, 1)>>
         /\ objs = <<Image_new_obj("Animation", PixInt(n), ColBg(black),
                                   FALSE, 1, 1, playback),
                     Image_new_obj("Image", PixInt(n), ImgBg(1),
                                   FALSE, 2, 0, FALSE)>>
         /\ opas = <<full(n, R(1)), full(n, R(1))>>
    /\ RUNNING = TRUE
    /\ ret = NoRet
    /\ nwrites = 0
    /\ play = NoPlay
    /\ emu = NoEmu

NextAnim ==
    \/ \E self \in UserObjs, update_bg \in BOOLEAN :
           /\ objs[self].cls = "Animation" \/ update_bg
           /\ NextFrame(self, update_bg)
    \/ \E self \in ObjsOf("Animation"), enabled \in BOOLEAN :
           SetPlayback(self, enabled)
    \/ \E value \in BOOLEAN : SetRunning(value)

SpecAnim == InitAnim /\ [][NextAnim]_vars

---------------------------------------------------------------------------
(* Specification of showing: a strip above a counting animation *)

\* colours with channels inside and outside 0..255
ShowPalette == {MAIN_COLOR, Col(300, -1, 128)}

\* anim = Animation(visual=binary_count, pixels=MaxLen, playback=playback);
\* Strip(data, bg, opa), bg being anim or black
InitShow ==
    /\ \E data \in [1..MaxLen -> ShowPalette], opa \in {Q(1, 2), R(1)},
          bg \in {ImgBg(1), ColBg(black)}, playback \in BOOLEAN :
         /\ gens = <<NewGen("binary_count", MaxLen, 0, 0)>>
         /\ objs = <<Image_new_obj("Animation", PixInt(MaxLen), ColBg(black),
                                   FALSE, 1, 1, playback),
                     Image_new_obj("Strip", PixData(data), bg,
                                   FALSE, 2, 0, FALSE)>>
         /\ opas = <<full(MaxLen, R(1)), full(MaxLen, opa)>>
    /\ RUNNING = TRUE
    /\ ret = NoRet
    /\ nwrites = 0
    /\ play = NoPlay
    /\ emu = NoEmu

NextShow ==
    \E advance \in BOOLEAN, img \in {0, 1}, cast \in Casts :
        /\ Len(objs[2].sent) <= MaxSent
        /\ Show(2, advance, img, cast)

SpecShow == InitShow /\ [][NextShow]_vars

---------------------------------------------------------------------------
(* Specification of play: a counting animation played on a strip *)

\* anim = Animation(visual=binary_count, pixels=MaxLen, bg=bg,
\* auto_opa=auto, playback=playback); Strip(MaxLen, bg=anim or black)
InitPlay ==
    /\ \E bg \in {black, white}, auto \in BOOLEAN, playback \in BOOLEAN,
          sbg \in {ImgBg(1), ColBg(black)} :
         /\ gens = <<NewGen("binary_count", MaxLen, 0, 0)>>
         /\ objs = <<Image_new_obj("Animation", PixInt(MaxLen), ColBg(bg),
                                   auto, 1, 1, playback),
                     Image_new_obj("Strip", PixInt(MaxLen), sbg,
                                   FALSE, 2, 0, FALSE)>>
         /\ opas = <<full(MaxLen, R(1)), full(MaxLen, R(1))>>
    /\ RUNNING = TRUE
    /\ ret = NoRet
    /\ nwrites = 0
    /\ play = NoPlay
    /\ emu = NoEmu

\* frame updates of the animation before it is played
PlayAdvance == play.pc = "idle" /\ NextFrame(1, TRUE)

PlayCall ==
    \E fps \in {0, 30}, max_dur \in BOOLEAN :
        /\ play.pc = "idle"
        /\ Play(1, 2, fps, max_dur)

PlayStep == \E cast \in Casts, elapsed \in BOOLEAN : PlayLoop(cast, elapsed)

NextPlay == PlayAdvance \/ PlayCall \/ PlayStep

\* what a turn of the loop of play changes
played == <<objs, gens, play, emu>>

\* play runs in the caller's thread, so its loop is never left waiting:
\* weak fairness of PlayStep, WF_played(PlayStep), written out.  PlayStep is
\* enabled exactly while play.pc = "loop", each of its steps changes played,
\* and no other action is enabled in the loop.
PlayFairness ==
    []<>(play.pc # "loop") \/ []<><<play.pc = "loop">>_played

SpecPlay == InitPlay /\ [][NextPlay]_vars /\ PlayFairness

---------------------------------------------------------------------------
(* Specification of blinking: a blink animation shown frame by frame *)

\* anim = Animation(visual=blink(n, on_frames=k, off_frames=m), pixels=n,
\* bg=bg, auto_opa=auto); Strip(n)
InitBlink ==
    /\ \E n \in 1..MaxLen, k \in 1..MaxBlink, m \in 1..MaxBlink,
          bg \in {black, white}, auto \in BOOLEAN :
         /\ gens = <<NewGen("blink", n, k, m)>>
         /\ objs = <<Image_new_obj("Animation", PixInt(n), ColBg(bg),
                                   auto, 1, 1, TRUE),
                     Image_new_obj("Strip", PixInt(n), ColBg(black),
                                   FALSE, 2, 0, FALSE)>>
         /\ opas = <<full(n, R(1)), full(n, R(1))>>
    /\ RUNNING = TRUE
    /\ ret = NoRet
    /\ nwrites = 0
    /\ play = NoPlay
    /\ emu = NoEmu

\* strip.show(img=anim) with advance, and anim.composite read between two
\* frames
NextBlink ==
    \/ \E cast \in Casts :
         /\ Len(objs[2].sent) <= MaxShown
         /\ Show(2, TRUE, 1, cast)
    \/ Composite(1)

SpecBlink == InitBlink /\ [][NextBlink]_vars

---------------------------------------------------------------------------
(* Specification of editing: one image, its pixels and opacities *)

\* a colour whose channels all lie below FLOAT_PRECISION without being 0
dim == <<Q(1, 2097152), R(0), R(0)>>

EditPalette == {black, dim, MAIN_COLOR}

\* opacities: 0, a value below FLOAT_PRECISION, a mid-range value, 1
EditOpas == {R(0), Q(1, 2097152), Q(1, 2), R(1)}

\* the int indices from -(n+1) to n
EditIdxs(n) == (-(n + 1))..n

\* the opa argument of fill and set: none, or a number below, inside or above
\* the range 0..1
EditOpaArgs == {None, Some(Q(-1, 2)), Some(Q(1, 2)), Some(Q(3, 2))}

\* Image(data, opa=opa) with 1..MaxLen pixels of the palette
InitEdit ==
    /\ \E n \in 1..MaxLen :
         \E data \in [1..n -> EditPalette], opa \in [1..n -> EditOpas] :
            /\ objs = <<Image_new_obj("Image", PixData(data), ColBg(black),
                                      FALSE, 1, 0, FALSE)>>
            /\ opas = <<Image_new_opa(PixData(data), OpaSeq(opa))>>
    /\ gens = <<>>
    /\ RUNNING = TRUE
    /\ ret = NoRet
    /\ nwrites = 0
    /\ play = NoPlay
    /\ emu = NoEmu

\* img[key], img[key] = value, img.fill(color, opa), img.set(idx, col, opa),
\* img.clear(), img.auto_opa()
NextEdit ==
    \/ \E key \in EditIdxs(objs[1].n) : GetItem(1, key)
    \/ \E key \in EditIdxs(objs[1].n), value \in {dim, MAIN_COLOR} :
         SetItem(1, key, value)
    \/ \E color \in {None, Some(black), Some(MAIN_COLOR)},
          opa \in EditOpaArgs :
         Fill(1, color, opa)
    \/ \E idx \in EditIdxs(objs[1].n), col \in {None, Some(MAIN_COLOR)},
          opa \in EditOpaArgs :
         Set(1, idx, col, opa)
    \/ Clear(1)
    \/ AutoOpa(1)

SpecEdit == InitEdit /\ [][NextEdit]_vars

---------------------------------------------------------------------------
(* Specification of a changing chain: an image above a counting animation *)

\* anim = Animation(visual=binary_count, pixels=MaxLen, auto_opa=auto);
\* img = Image(MaxLen, bg=anim, opa=0.5)
InitLive ==
    /\ \E auto \in BOOLEAN :
         /\ gens = <<NewGen("binary_count", MaxLen, 0, 0)>>
         /\ objs = <<Image_new_obj("Animation", PixInt(MaxLen), ColBg(black),
                                   auto, 1, 1, TRUE),
                     Image_new_obj("Image", PixInt(MaxLen), ImgBg(1),
                                   FALSE, 2, 0, FALSE)>>
         /\ opas = <<full(MaxLen, R(1)), full(MaxLen, Q(1, 2))>>
    /\ RUNNING = TRUE
    /\ ret = NoRet
    /\ nwrites = 0
    /\ play = NoPlay
    /\ emu = NoEmu

\* anim[0] = MAIN_COLOR; anim[0.5] = white; anim.fill(white);
\* anim.set(-1, white, 0.); img.bg = [white] * MaxLen or img.bg = anim;
\* img.add_modifier(reverse), once; img.remove_modifier(-1);
\* img.__next_frame__(), which advances anim; the composite of either
NextLive ==
    \/ SetItem(1, 0, MAIN_COLOR)
    \/ nwrites < MaxWrites /\ SetSubItem(1, Q(1, 2), white)
    \/ Fill(1, Some(white), None)
    \/ Set(1, -1, Some(white), Some(R(0)))
    \/ \E bg \in {ArrBg(tile(white, MaxLen)), ImgBg(1)} : SetBg(2, bg)
    \/ objs[2].modifiers = <<>> /\ AddModifier(2, "reverse")
    \/ RemoveModifier(2, -1)
    \/ NextFrame(2, TRUE)
    \/ \E self \in {1, 2} : Composite(self)

SpecLive == InitLive /\ [][NextLive]_vars

---------------------------------------------------------------------------
(* Specification of the snapshot: a strip above a blinking animation, edited
   and shown *)

\* anim = Animation(visual=blink(MaxLen, on_frames=1, off_frames=1),
\* pixels=MaxLen, bg=white); strip = Strip(MaxLen, bg=anim, opa=0.5)
InitSnap ==
    /\ gens = <<NewGen("blink", MaxLen, 1, 1)>>
    /\ objs = <<Image_new_obj("Animation", PixInt(MaxLen), ColBg(white),
                              FALSE, 1, 1, TRUE),
                Image_new_obj("Strip", PixInt(MaxLen), ImgBg(1),
                              FALSE, 2, 0, FALSE)>>
    /\ opas = <<full(MaxLen, R(1)), full(MaxLen, Q(1, 2))>>
    /\ RUNNING = TRUE
    /\ ret = NoRet
    /\ nwrites = 0
    /\ play = NoPlay
    /\ emu = NoEmu

\* strip.show(advance, img); anim[0] = MAIN_COLOR; strip.fill(white, 0.5);
\* strip.set(-1, white, 0.5); strip.clear(); strip.bg = [white] * MaxLen or
\* strip.bg = anim; strip.add_modifier(reverse), once;
\* strip.remove_modifier(-1); strip.__next_frame__(), which advances anim
NextSnap ==
    \/ \E advance \in BOOLEAN, img \in {0, 1}, cast \in Casts :
         /\ Len(objs[2].sent) <= MaxSent
         /\ Show(2, advance, img, cast)
    \/ SetItem(1, 0, MAIN_COLOR)
    \/ Fill(2, Some(white), Some(Q(1, 2)))
    \/ Set(2, -1, Some(white), Some(Q(1, 2)))
    \/ Clear(2)
    \/ \E bg \in {ArrBg(tile(white, MaxLen)), ImgBg(1)} : SetBg(2, bg)
    \/ objs[2].modifiers = <<>> /\ AddModifier(2, "reverse")
    \/ RemoveModifier(2, -1)
    \/ NextFrame(2, TRUE)

SpecSnap == InitSnap /\ [][NextSnap]_vars

---------------------------------------------------------------------------
(* Specification of construction: Image(n) for small and non-positive n *)

\* Image(n)
NextNew ==
    \E n \in (-1)..MaxNew :
        /\ Len(objs) < MaxObjs
        /\ New("Image", PixInt(n), ColBg(black), OpaNum(R(1)), FALSE)

SpecNew == InitEmpty /\ [][NextNew]_vars

---------------------------------------------------------------------------
(* Specification of a stack: two counting generators under a root *)

\* low = Animation(binary_count, MaxLen, playback=p1); mid = Animation(
\* binary_count, MaxLen, bg=low, playback=p2) or Image(MaxLen, bg=low);
\* root = Strip(MaxLen, bg=mid) or Image(MaxLen, bg=mid), all of opacity 1/2
InitStack ==
    /\ \E p1 \in BOOLEAN, p2 \in BOOLEAN, mid \in {"Animation", "Image"},
          root \in {"Strip", "Image"} :
         /\ gens = <<NewGen("binary_count", MaxLen, 0, 0),
                     NewGen("binary_count", MaxLen, 0, 0)>>
         /\ objs = <<Image_new_obj("Animation", PixInt(MaxLen), ColBg(black),
                                   FALSE, 1, 1, p1),
                     Image_new_obj(mid, PixInt(MaxLen), ImgBg(1),
                                   FALSE, 2, 2, p2),
                     Image_new_obj(root, PixInt(MaxLen), ImgBg(2),
                                   FALSE, 3, 0, FALSE)>>
         /\ opas = <<full(MaxLen, Q(1, 2)), full(MaxLen, Q(1, 2)),
                     full(MaxLen, Q(1, 2))>>
    /\ RUNNING = TRUE
    /\ ret = NoRet
    /\ nwrites = 0
    /\ play = NoPlay
    /\ emu = NoEmu

\* root.__next_frame__(); mid.__next_frame__(update_bg);
\* root.show(advance) of a strip; set_playback of either animation
NextStack ==
    \/ NextFrame(3, TRUE)
    \/ \E update_bg \in BOOLEAN :
         /\ objs[2].cls = "Animation" \/ update_bg
         /\ NextFrame(2, update_bg)
    \/ \E advance \in BOOLEAN, cast \in Casts :
         /\ Len(objs[3].sent) <= MaxSent
         /\ Show(3, advance, 0, cast)
    \/ \E self \in ObjsOf("Animation"), enabled \in BOOLEAN :
         SetPlayback(self, enabled)

SpecStack == InitStack /\ [][NextStack]_vars

---------------------------------------------------------------------------
(* Specification of still frames: a strip over a blinking animation, with and
   without auto opacity *)

\* anim = Animation(blink(MaxLen, on_frames=1, off_frames=1), MaxLen,
\* auto_opa=a1); strip = Strip([black, MAIN_COLOR, ...], bg=anim, opa=0.5,
\* auto_opa=a2)
InitStill ==
    /\ \E a1 \in BOOLEAN, a2 \in BOOLEAN :
         /\ gens = <<NewGen("blink", MaxLen, 1, 1)>>
         /\ objs = <<Image_new_obj("Animation", PixInt(MaxLen), ColBg(black),
                                   a1, 1, 1, TRUE),
                     Image_new_obj("Strip",
                                   PixData([k \in 1..MaxLen |->
                                       IF k = 1 THEN black ELSE MAIN_COLOR]),
                                   ImgBg(1), a2, 2, 0, FALSE)>>
         /\ opas = <<full(MaxLen, R(1)), full(MaxLen, Q(1, 2))>>
    /\ RUNNING = TRUE
    /\ ret = NoRet
    /\ nwrites = 0
    /\ play = NoPlay
    /\ emu = NoEmu

\* strip.show(advance, img); the composite of either; a write into the array
\* composite returned; anim.set(0, white, 0.5); anim.__next_frame__()
NextStill ==
    \/ \E advance \in BOOLEAN, img \in {0, 1}, cast \in Casts :
         /\ Len(objs[2].sent) <= MaxSent
         /\ Show(2, advance, img, cast)
    \/ \E self \in {1, 2} : Composite(self)
    \/ \E self \in {1, 2} : CompositeWrite(self, 0, white)
    \/ Set(1, 0, Some(white), Some(Q(1, 2)))
    \/ NextFrame(1, TRUE)

SpecStill == InitStill /\ [][NextStill]_vars

---------------------------------------------------------------------------
(* Specification of the emulation: one driver, its display, MaxFrames frames *)

NextEmu ==
    \/ NeoPixel_new
    \/ Display_init
    \/ NeoPixel_await
    \/ NeoPixel_show
    \/ NeoPixel_close
    \/ Display_visualize

\* the display runs in a process of its own, whose loop goes on whatever the
\* driver does: weak fairness of its steps, WF(Display_init \/
\* Display_visualize), written out.  A step of the display is enabled exactly
\* while the display is neither off nor closed, and each changes shown.
shown == <<emu.display, emu.data>>

EmuFairness ==
    \/ []<>(emu.display \in {"off", "closed"})
    \/ []<><<emu.display \notin {"off", "closed"}>>_shown

SpecEmu == InitEmpty /\ [][NextEmu]_vars /\ EmuFairness

---------------------------------------------------------------------------
(* Claims on the background graph *)

\* the objects reachable from i along at most k background references
RECURSIVE Below(_, _)
Below(i, k) ==
    IF k = 0 \/ objs[i].bg.ref = 0 THEN {}
    ELSE {objs[i].bg.ref} \cup Below(objs[i].bg.ref, k - 1)

Backgrounds(i) == Below(i, Len(objs))

\* C1: after any sequence of constructions and background assignments the
\* graph of background references has no cycle, no Strip is the background
\* of any object, and an assignment of the object itself or of an object
\* whose background chain contains it has been rejected with ValueError.
C1_Acyclic ==
    /\ \A i \in 1..Len(objs) : i \notin Backgrounds(i)
    /\ \A i \in 1..Len(objs) :
          objs[i].bg.ref # 0 => objs[objs[i].bg.ref].cls # "Strip"
    /\ (ret.op = "bg" /\ ret_arg.ref # 0
          /\ (ret_arg.ref = ret.self \/ ret.self \in Backgrounds(ret_arg.ref)))
       => ret.exc = "ValueError"

\* C1 witness: the background of an object was to become an object that
\* reaches it through a second one, and the assignment was rejected
C1_Witness ==
    /\ ret.op = "bg" /\ ret.exc = "ValueError" /\ ret_arg.ref # 0
    /\ ret_arg.ref # ret.self
    /\ objs[ret_arg.ref].bg.ref \notin {0, ret.self}
    /\ ret.self \in Backgrounds(ret_arg.ref)
    /\ \E s \in 1..Len(objs) : objs[s].cls = "Strip"

\* C9: assigning a background whose length differs from the object's n
\* fails, so after a successful assignment the background has n pixels.
C9_BgShapeChecked ==
    ret.op = "bg" =>
        /\ BgLen(ret_arg) # objs[ret.self].n => ret.exc # "None"
        /\ ret.exc = "None" => BgLen(objs[ret.self].bg) = objs[ret.self].n

---------------------------------------------------------------------------
(* Claims on indexing *)

\* an int index clamped to [-n, n-1]
ClampIdx(n, k) == IF k < -n THEN -n ELSE IF k > n - 1 THEN n - 1 ELSE k

\* (1-f)*buffer[lo] + f*buffer[hi] with lo = floor(i), f = i - floor(i) and
\* hi = lo + 1, lo and hi clamped to [-n, n-1]
Lerp(o, i) ==
    LET lo == ClampIdx(o.n, Floor(i))
        hi == ClampIdx(o.n, Floor(i) + 1)
        f == Mod1(i)
    IN  CAdd(CScale(o.data[Pos(o.n, lo)], RSub(R(1), f)),
             CScale(o.data[Pos(o.n, hi)], f))

\* C5: for every float index i the image accepts, positive or negative,
\* get(i) = (1-f)*buffer[lo] + f*buffer[hi], lo = floor(i), f the fractional
\* part of i, hi the adjacent index clamped to [-n, n-1].
C5_GetInterpolates ==
    (ret.op = "getsubitem" /\ ret.exc = "None")
        => ret_val = Lerp(objs[ret.self], ret_arg)

\* C6: with auto opacity disabled, set(i, v) at a float index with fractional
\* part f, 0 < f < 1, and distinct neighbours lo and hi leaves
\* buffer[lo] = old[lo]*f + v*(1-f) and buffer[hi] = old[hi]*(1-f) + v*f and
\* changes no other pixel and no opacity; with f = 0 it overwrites pixel i.
C6_SetBlends ==
    (ret.op = "setsubitem" /\ ret.exc = "None"
        /\ ~objs[ret.self].auto_opa_mode)
    => LET o == objs[ret.self]
           old == ret_val.data
           i == ret_arg[1]
           v == ret_arg[2]
           f == Mod1(i)
           lo == Pos(o.n, ClampIdx(o.n, Floor(i)))
           hi == Pos(o.n, ClampIdx(o.n, Floor(i) + 1))
       IN  /\ opas[o.opa] = ret_val.opa
           /\ f = R(0) =>
                o.data = [old EXCEPT ![Pos(o.n, Floor(i))] = v]
           /\ (f # R(0) /\ lo # hi) =>
                o.data = [old EXCEPT
                    ![lo] = CAdd(CScale(old[lo], f), CScale(v, RSub(R(1), f))),
                    ![hi] = CAdd(CScale(old[hi], RSub(R(1), f)), CScale(v, f))]

---------------------------------------------------------------------------
(* Claims on composite and the modifier list *)

\* C3: add_modifier with the default position puts the new modifier at the
\* end of the list, whatever the length of the list, so that the list (which
\* composite applies front to back) is in the order of the additions.
C3_AddAppends ==
    (ret.op = "add_modifier" /\ ret_arg[2] = -1)
        => objs[ret.self].modifiers = Append(ret_val, ret_arg[1])

\* the background image composite blends object i with
BgImage(i) ==
    IF objs[i].bg.ref # 0 THEN composite(objs[i].bg.ref, opas).val
    ELSE objs[i].bg.val

\* C4: for an image without modifiers and with auto opacity disabled, pixel k
\* of composite is data[k]*opa[k] + bg[k]*(1 - opa[k]), bg being the composite
\* of the background image or the static array; with all opacities 1 it is
\* the raw buffer, with all opacities 0 it is the background.
C4_CompositeBlends ==
    (/\ ret.op = "composite" /\ ret.exc = "None"
     /\ objs[ret.self].modifiers = <<>>
     /\ ~objs[ret.self].auto_opa_mode)
        => LET o == objs[ret.self]
               opa == opas[o.opa]
               bg == BgImage(ret.self)
           IN  /\ Len(ret_val) = o.n
               /\ \A k \in 1..o.n :
                     ret_val[k] = CAdd(CScale(o.data[k], opa[k]),
                                       CScale(bg[k], RSub(R(1), opa[k])))
               /\ (\A k \in 1..o.n : opa[k] = R(1)) => ret_val = o.data
               /\ (\A k \in 1..o.n : opa[k] = R(0)) => ret_val = bg

\* composite of the top of a chain: its background is an image whose own
\* composite differs from its raw buffer, and a half transparent pixel shows
\* a colour that is neither its own nor the background's
C4_Witness ==
    /\ ret.op = "composite" /\ ret.exc = "None"
    /\ objs[ret.self].modifiers = <<>>
    /\ ~objs[ret.self].auto_opa_mode
    /\ objs[ret.self].bg.ref # 0
    /\ BgImage(ret.self) # objs[objs[ret.self].bg.ref].data
    /\ \E k \in 1..objs[ret.self].n :
          /\ opas[objs[ret.self].opa][k] = Q(1, 2)
          /\ ret_val[k] # objs[ret.self].data[k]
          /\ ret_val[k] # BgImage(ret.self)[k]
    /\ \E k \in 1..objs[ret.self].n : opas[objs[ret.self].opa][k] = R(1)

\* the modifiers of a list that do not raise, in the order of the list
Applicable(mods) == SelectSeq(mods, LAMBDA m : mod_exc(m) = "None")

\* the modifiers of mods applied to img one after the other, first to last
RECURSIVE InListOrder(_, _)
InListOrder(mods, img) ==
    IF mods = <<>> THEN img
    ELSE InListOrder(Tail(mods), mod_apply(Head(mods), img))

\* C10: composite of an image whose list holds a modifier that raises
\* returns normally, and its value is the blend passed through the other
\* modifiers of the list in list order, the raising one left out.
C10_FailingModifierSkipped ==
    (/\ ret.op = "composite"
     /\ \E j \in 1..Len(objs[ret.self].modifiers) :
            mod_exc(objs[ret.self].modifiers[j]) # "None")
        => /\ ret.exc = "None"
           /\ ret_val = InListOrder(Applicable(objs[ret.self].modifiers),
                            blend(objs[ret.self].data,
                                  opas[objs[ret.self].opa],
                                  BgImage(ret.self)))

\* composite with a raising modifier between two modifiers that do not
\* commute, both of which change the image
C10_Witness ==
    /\ ret.op = "composite" /\ ret.exc = "None"
    /\ objs[ret.self].modifiers = <<"reverse", "shift", "wrap_shift_1">>
    /\ ret_val # objs[ret.self].data
    /\ ret_val # mod_apply("reverse", objs[ret.self].data)
    /\ ret_val # mod_apply("reverse",
                    mod_apply("wrap_shift_1", objs[ret.self].data))

---------------------------------------------------------------------------
(* Claims on animations and on showing *)

\* C7: when the generator of an animation has raised StopIteration in a frame
\* update, the animation's playback is off after the update; and a frame
\* update of an animation whose generator was exhausted before it leaves the
\* animation's colours and opacities as they were and its playback off.
C7_ExhaustedStaysStopped ==
    ret.op = "next_frame" =>
        /\ \A a \in ret_val.stopped : ~objs[a].playback
        /\ \A a \in 1..Len(ret_val.before) :
              (objs[a].cls = "Animation" /\ ret_val.before[a].done)
                 => /\ ~objs[a].playback
                    /\ objs[a].data = ret_val.before[a].data
                    /\ opas[objs[a].opa] = ret_val.before[a].opa

\* a frame update of an animation that has shown frames, whose generator was
\* exhausted before and whose playback had been switched on again
C7_Witness ==
    /\ ret.op = "next_frame" /\ ret.self = 1
    /\ ret_val.before[1].done
    /\ ret_val.before[1].playback
    /\ ret_val.stopped = {1}
    /\ gens[1].pos > 0
    /\ objs[1].data # tile(black, objs[1].n)

\* C8: every image has n colours and n opacities, n as at its construction,
\* whatever operations have run, a failed frame update included.
C8_LengthsKept ==
    \A i \in UserObjs :
        /\ Len(objs[i].data) = objs[i].n
        /\ Len(opas[objs[i].opa]) = objs[i].n

\* C2: what show stores in displayed and writes to the driver is, for every
\* channel c of the composite, c clipped to 0..255 and then truncated.
C2_ShowClips ==
    (ret.op = "show" /\ ret.exc = "None")
        => LET expected == [k \in 1..Len(ret_val) |->
                              [ch \in 1..3 |->
                                  Trunc(clip(ret_val[k][ch], R(0), R(255)))]]
           IN  /\ objs[ret.self].displayed = expected
               /\ objs[ret.self].driver = expected

---------------------------------------------------------------------------
(* Claims on play *)

\* C11: while an animation that is in the strip's own background chain is
\* played on the strip, every turn of the loop that shows a frame takes two
\* frames from the animation's generator.
C11_PlayAdvancesTwice ==
    [][(/\ play.pc = "loop"
        /\ play.anim \in Backgrounds(play.strip)
        /\ Len(objs'[play.strip].sent) = Len(objs[play.strip].sent) + 1
        /\ gens[objs[play.anim].visual].pos + 2
              <= 2 ^ gens[objs[play.anim].visual].leds)
          => gens'[objs[play.anim].visual].pos
                = gens[objs[play.anim].visual].pos + 2]_vars

\* the frames the strip has sent since the call of play began
PlayPushes ==
    SubSeq(objs[play.strip].sent, play.sent + 1, Len(objs[play.strip].sent))

\* what the strip sends for frame number of binary_count: the colour where
\* the digit is 1 (everywhere when auto opacity makes the coloured pixels
\* opaque), the animation's background elsewhere
CountPush(number) ==
    [p \in 1..MaxLen |->
        IF objs[play.anim].auto_opa_mode \/ Bit(number, MaxLen - p) = 1
        THEN <<0, 255, 180>>
        ELSE [ch \in 1..3 |-> objs[play.anim].bg.val[p][ch][1]]]

---------------------------------------------------------------------------
(* Claims on blink *)

\* what the strip was sent after the first, the second, ... frame update
BlinkSeen == SubSeq(objs[2].sent, 3, Len(objs[2].sent))

\* the animation's composite in the 'on' state: MAIN_COLOR at full opacity
BlinkOn == [p \in 1..objs[1].n |-> [ch \in 1..3 |-> MAIN_COLOR[ch][1]]]

\* the animation's composite in the 'off' state: black at opacity 0, which
\* leaves the background
BlinkOff == [p \in 1..objs[1].n |-> [ch \in 1..3 |-> objs[1].bg.val[p][ch][1]]]

\* C12: with a blink of k on-frames and m off-frames the composites after
\* successive frame updates are k times the on-state, then m times the
\* off-state, and so on; the composite after k+m further updates is the same
C12_BlinkPeriodic ==
    LET k == gens[1].on_frames
        m == gens[1].off_frames
    IN  /\ \A j \in 1..Len(BlinkSeen) :
              BlinkSeen[j] = IF (j - 1) % (k + m) < k THEN BlinkOn
                             ELSE BlinkOff
        /\ \A j \in 1..(Len(BlinkSeen) - (k + m)) :
              BlinkSeen[j + k + m] = BlinkSeen[j]

C12_Witness ==
    /\ gens[1].on_frames = 2 /\ gens[1].off_frames = 1
    /\ Len(BlinkSeen) >= 7
    /\ BlinkSeen[1] = BlinkOn /\ BlinkSeen[3] = BlinkOff
    /\ BlinkSeen[7] = BlinkSeen[1] /\ BlinkOn # BlinkOff

---------------------------------------------------------------------------
(* Claims on auto_opa *)

\* image 1 after a call op that did not raise, ret_val being its content
\* before the call
After(op) == ret.op = op /\ ret.self = 1 /\ ret.exc = "None"

\* C13: auto_opa leaves every opacity strictly between 0 and 1 as it is,
\* whatever the colour of the pixel
C13_MidOpacitiesKept ==
    After("auto_opa") =>
        \A k \in 1..objs[1].n :
            RLt(R(0), ret_val.opa[k]) /\ RLt(ret_val.opa[k], R(1))
                => opas[objs[1].opa][k] = ret_val.opa[k]

\* a pixel that auto_opa takes for coloured: a channel above the precision
Coloured(c) == \E ch \in 1..3 : AbovePrecision(c[ch])

---------------------------------------------------------------------------
(* Claims on a changing chain and on the displayed snapshot *)

\* img with its pixels in the opposite order
Reversed(img) == [k \in 1..Len(img) |-> img[Len(img) + 1 - k]]

\* the composite of object i worked out from what the objects hold now: its
\* pixels blended with the composite of its background, or with its static
\* background, by its opacities, then reversed once for every reverse in its
\* modifier list
RECURSIVE Recomputed(_)
Recomputed(i) ==
    LET o == objs[i]
        opa == opas[o.opa]
        bg == IF o.bg.ref # 0 THEN Recomputed(o.bg.ref) ELSE o.bg.val
        blended == [k \in 1..o.n |->
                       CAdd(CScale(o.data[k], opa[k]),
                            CScale(bg[k], RSub(R(1), opa[k])))]
    IN  IF Len(o.modifiers) % 2 = 1 THEN Reversed(blended) ELSE blended

\* C15: whatever was changed before (pixels by int or float index, fill,
\* opacities, the background, the modifier list, the frame), the composite of
\* an object is the blend worked out from the current state of its chain
C15_CompositeNotCached ==
    ret.op = "composite" => ret.exc = "None" /\ ret_val = Recomputed(ret.self)

\* composite of the top after the animation below was written at a float
\* index, advanced and the top got a modifier
C15_Witness ==
    /\ ret.op = "composite" /\ ret.self = 2
    /\ objs[2].bg = ImgBg(1)
    /\ objs[2].modifiers = <<"reverse">>
    /\ nwrites = 1
    /\ gens[1].pos = 2
    /\ ret_val[1] # ret_val[2]
    /\ ret_val # objs[2].data

\* the composite of object i as show would quantize it now (all channels of
\* the snapshot specification lie in 0..255)
Quantized(img) == [k \in 1..Len(img) |-> [ch \in 1..3 |-> Trunc(img[k][ch])]]

\* C16: the displayed snapshot of the strip is what its most recent show
\* sent (the quantized composite of that moment), all zero before the first
\* show, and no operation other than show changes it
C16_DisplayedOnlyByShow ==
    /\ [](objs[2].displayed = objs[2].sent[Len(objs[2].sent)])
    /\ [](Len(objs[2].sent) = 1
            => objs[2].displayed = tile(<<0, 0, 0>>, objs[2].n))
    /\ [](ret.op = "show" /\ ret.exc = "None"
            => objs[2].displayed = Quantized(ret_val))
    /\ [][ret'.op # "show"
            => objs'[2].displayed = objs[2].displayed]_vars

\* after two shows that sent different frames the strip was edited: the
\* snapshot is the second frame, not what a show would send now
C16_Witness ==
    /\ ret.op = "fill"
    /\ Len(objs[2].sent) = 3
    /\ objs[2].sent[3] # objs[2].sent[2]
    /\ objs[2].displayed = objs[2].sent[3]
    /\ objs[2].displayed # Quantized(Recomputed(2))

---------------------------------------------------------------------------
(* Claims on construction, on fill and set, and on integer indices *)

\* C17: Image(n) with n > 0 makes an image of n black pixels, n opacities 1
\* and a static black background of n pixels; with n <= 0 it fails and no
\* image is made
C17_NewImage ==
    /\ [](ret.op = "new" =>
            IF ret_val.k > 0
            THEN /\ ret.exc = "None"
                 /\ ret.self = Len(objs)
                 /\ objs[ret.self].n = ret_val.k
                 /\ objs[ret.self].data = [k \in 1..ret_val.k |-> black]
                 /\ opas[objs[ret.self].opa] = [k \in 1..ret_val.k |-> R(1)]
                 /\ objs[ret.self].bg = ArrBg([k \in 1..ret_val.k |-> black])
            ELSE ret.exc # "None" /\ ret.self = 0)
    /\ [][ret'.op = "new"
            => IF ret'.val["new"].k > 0
               THEN Len(objs') = Len(objs) + 1 /\ Len(opas') = Len(opas) + 1
               ELSE objs' = objs /\ opas' = opas]_vars

C17_Witness ==
    /\ ret.op = "new" /\ ret.exc = "None"
    /\ ret_val.k = MaxNew
    /\ Len(objs) = 2
    /\ Len(objs[2].data) = MaxNew
    /\ objs[1].n = 1

\* C18: fill with an opacity and no colour sets every opacity to the clipped
\* value and keeps the colours, fill without arguments changes nothing,
\* set(i, opa=x) without a colour changes opacity i only; none of them fails
C18_NoColourCalls ==
    /\ ret.op = "fill" /\ ret_arg[1] = None
        => /\ ret.exc = "None"
           /\ objs[1].data = ret_val.data
           /\ opas[objs[1].opa] =
                IF ret_arg[2] = None THEN ret_val.opa
                ELSE [k \in 1..Len(ret_val.opa) |->
                        clip(ret_arg[2][1], R(0), R(1))]
    /\ ret.op = "set" /\ ret_arg[2] = None /\ ret_arg[3] # None
         /\ InRange(objs[1].n, ret_arg[1])
        => /\ ret.exc = "None"
           /\ objs[1].data = ret_val.data
           /\ opas[objs[1].opa] =
                [ret_val.opa EXCEPT ![Pos(objs[1].n, ret_arg[1])] =
                    clip(ret_arg[3][1], R(0), R(1))]

---------------------------------------------------------------------------
(* Claims on frame updates through a stack *)

\* the generator of animation i was resumed once by this step: it yielded one
\* frame more, or it ended
PulledOnce(i) ==
    LET g == objs[i].visual IN
    \/ gens'[g].pos = gens[g].pos + 1 /\ gens'[g].done = gens[g].done
    \/ gens'[g].pos = gens[g].pos /\ gens'[g].done

\* the step is a frame update that began at the root and ended normally
RootUpdate ==
    /\ ret'.exc = "None"
    /\ \/ ret'.op = "next_frame" /\ ret'.self = 3
       \/ ret'.op = "show" /\ ret'.arg["show"][1]

\* C22: one frame update at the root resumes the generator of every playing
\* animation of the chain exactly once and of no stopped animation, through
\* images and stopped animations alike
C22_OnePullEach ==
    [][RootUpdate =>
        \A i \in {1, 2} :
            objs[i].cls = "Animation" =>
                IF objs[i].playback THEN PulledOnce(i)
                ELSE gens'[objs[i].visual] = gens[objs[i].visual]]_vars

C22_Witness ==
    /\ ret.op = "show" /\ ret.exc = "None" /\ ret_arg[1]
    /\ objs[2].cls = "Animation" /\ ~objs[2].playback
    /\ gens[2].pos = 0
    /\ objs[1].playback /\ gens[1].pos = 2
    /\ Len(objs[3].sent) = 3

\* C23: a show that ends normally stores and sends one and the same frame,
\* the quantized composite of the state before the show, and advances the
\* chain only after that
C23_ShowThenAdvance ==
    [][ret'.op = "show" /\ ret'.exc = "None" =>
         /\ objs'[3].displayed = Quantized(Recomputed(3))
         /\ objs'[3].driver = objs'[3].displayed
         /\ objs'[3].sent = Append(objs[3].sent, objs'[3].displayed)
         /\ ret'.arg["show"][1] => RootUpdate /\ \A i \in {1, 2} :
                objs[i].cls = "Animation" /\ objs[i].playback => PulledOnce(i)
         /\ ~ret'.arg["show"][1] => gens' = gens]_vars

\* the frame on display is not the composite of the state the show left
C23_Witness ==
    /\ ret.op = "show" /\ ret.exc = "None" /\ ret_arg[1]
    /\ objs[3].displayed = Quantized(ret_val)
    /\ objs[3].displayed = objs[3].driver
    /\ objs[3].displayed # Quantized(Recomputed(3))
    /\ gens[1].pos = 2 /\ gens[2].pos = 1

---------------------------------------------------------------------------
(* Claims on stopping and resuming an animation *)

\* the colours and opacities of the frame a generator yields at position pos
FrameAt(gen) ==
    IF gen.kind = "binary_count"
    THEN [data |-> tile(MAIN_COLOR, gen.leds),
          opa |-> [k \in 1..gen.leds |-> R(Bit(gen.pos, gen.leds - k))]]
    ELSE [data |-> tile(IF gen.pos < gen.on_frames THEN MAIN_COLOR ELSE black,
                        gen.leds),
          opa |-> full(gen.leds, IF gen.pos < gen.on_frames THEN R(1)
                                 ELSE R(0))]

\* the position that follows pos in the generator's sequence of frames
PosAfter(gen) ==
    IF gen.kind = "binary_count" THEN gen.pos + 1
    ELSE (gen.pos + 1) % (gen.on_frames + gen.off_frames)

\* C24: a stopped animation takes no frame and keeps its content; stopping
\* and resuming leave the generator where it stands, so that the frame taken
\* after a resume is the one that follows the last frame taken; a playing
\* animation whose generator has ended is stopped again, content unchanged
C24_StopAndResume ==
    /\ [][ret'.op = "next_frame" /\ ~objs[1].playback
            => gens' = gens /\ Content(1)' = Content(1)
               /\ ~objs'[1].playback]_vars
    /\ [][ret'.op = "set_playback"
            => gens' = gens /\ Content(1)' = Content(1)]_vars
    /\ [][ret'.op = "next_frame" /\ ret'.exc = "None" /\ objs[1].playback
            => IF gens'[1].done
               THEN /\ ~objs'[1].playback
                    /\ Content(1)' = Content(1)
                    /\ gens'[1].pos = gens[1].pos
               ELSE /\ objs'[1].playback
                    /\ gens'[1].pos = PosAfter(gens[1])
                    /\ opas'[objs'[1].opa] = FrameAt(gens[1]).opa
                    /\ objs'[1].data =
                         [k \in 1..objs[1].n |->
                             Bx(FrameAt(gens[1]).data, k)]]_vars
    /\ [][ret'.op = "next_frame" /\ gens[1].done
            => gens' = gens /\ Content(1)' = Content(1)
               /\ ~objs'[1].playback]_vars

\* an animation whose generator had ended was resumed and updated
C24_Witness ==
    /\ ret.op = "next_frame" /\ ret.exc = "None"
    /\ ret_val.before[1].playback /\ ret_val.before[1].done
    /\ ~objs[1].playback
    /\ gens[1].kind = "binary_count" /\ gens[1].pos = 2 ^ MaxLen
    /\ Content(1) = [data |-> ret_val.before[1].data,
                     opa |-> ret_val.before[1].opa]

---------------------------------------------------------------------------
(* Claims on rejected assignments, on shows that do not advance, and on what
   composite leaves *)

\* C25: a background assignment that is rejected with ValueError (a cycle, or
\* a strip in the chain of the new background) changes no object at all
C25_RejectedBgKept ==
    [][ret'.op = "bg" /\ ret'.exc = "ValueError"
         => objs' = objs /\ opas' = opas /\ gens' = gens]_vars

\* the lowest of a chain of three was given the top as background
C25_Witness ==
    /\ ret.op = "bg" /\ ret.exc = "ValueError"
    /\ Len(objs) = 3
    /\ ret.self = 1 /\ ret_arg = ImgBg(3)
    /\ objs[3].bg = ImgBg(2) /\ objs[2].bg = ImgBg(1)
    /\ objs[1].bg.ref = 0

\* the last two calls were shows of the same image without advance
StillTwice ==
    /\ ret.op = "show" /\ ret.exc = "None" /\ ~ret_arg[1]
    /\ ret'.op = "show" /\ ret'.exc = "None"
    /\ ret'.arg["show"] = ret_arg

\* C26 as stated: a show without advance takes no frame and changes no pixel,
\* opacity or playback state, and a second such show sends the same frame
C26_StillShowAsStated ==
    /\ [][ret'.op = "show" /\ ~ret'.arg["show"][1]
            => /\ gens' = gens /\ opas' = opas
               /\ \A i \in {1, 2} : /\ objs'[i].data = objs[i].data
                                    /\ objs'[i].playback = objs[i].playback
                                    /\ objs'[i].opa = objs[i].opa]_vars
    /\ [][StillTwice
            => objs'[2].sent[Len(objs'[2].sent)]
                  = objs[2].sent[Len(objs[2].sent)]]_vars

\* the objects of the chain of i, i included, whose auto opacity mode is on
AutoBelow(i) == {j \in {i} \cup Backgrounds(i) : objs[j].auto_opa_mode}

\* C26: a show without advance takes no frame and changes no pixel and no
\* playback state; it changes opacities only of objects of the shown chain
\* whose auto opacity mode is on, as auto_opa does; a second such show sends
\* the same frame and changes nothing
C26_StillShow ==
    /\ [][ret'.op = "show" /\ ~ret'.arg["show"][1]
            => /\ gens' = gens
               /\ \A i \in {1, 2} : /\ objs'[i].data = objs[i].data
                                    /\ objs'[i].playback = objs[i].playback
                                    /\ objs'[i].opa = objs[i].opa
               /\ \A a \in 1..Len(opas) :
                    opas'[a] # opas[a]
                      => \E j \in AutoBelow(IF ret'.arg["show"][2] = 0
                                            THEN 2 ELSE ret'.arg["show"][2]) :
                            /\ objs[j].opa = a
                            /\ opas'[a] = auto_opa(objs[j], opas[a])]_vars
    /\ [][StillTwice
            => /\ objs'[2].sent[Len(objs'[2].sent)]
                    = objs[2].sent[Len(objs[2].sent)]
               /\ opas' = opas]_vars

\* a show without advance of a strip and an animation with auto opacity,
\* which made the black pixels of both transparent
C26_Witness ==
    /\ ret.op = "show" /\ ret.exc = "None" /\ ret_arg = <<FALSE, 0>>
    /\ objs[1].auto_opa_mode /\ objs[2].auto_opa_mode
    /\ opas[objs[2].opa] = [k \in 1..MaxLen |->
                               IF k = 1 THEN R(0) ELSE Q(1, 2)]
    /\ opas[objs[1].opa] = full(MaxLen, R(0))
    /\ gens[1].pos = 0 /\ ~gens[1].started
    /\ Len(objs[2].sent) = 3

---------------------------------------------------------------------------
(* Claims on fractional writes in auto opacity mode *)

\* C28: in auto opacity mode a black value written at an index with a
\* fractional part changes no pixel, and no opacity other than those of the
\* two pixels next to the index
C28_BlackWriteKeepsColours ==
    (ret.op = "setsubitem" /\ objs[ret.self].auto_opa_mode
        /\ is_black_color(ret_arg[2]) /\ Mod1(ret_arg[1]) # R(0))
    => LET o == objs[ret.self]
           lo == Pos(o.n, ClampIdx(o.n, Floor(ret_arg[1])))
           hi == Pos(o.n, ClampIdx(o.n, Floor(ret_arg[1]) + 1))
       IN  /\ o.data = ret_val.data
           /\ Len(opas[o.opa]) = Len(ret_val.opa)
           /\ \A k \in 1..Len(ret_val.opa) :
                k \notin {lo, hi} => opas[o.opa][k] = ret_val.opa[k]

\* black was written between a coloured pixel and its neighbour: both
\* opacities changed, the colours stayed
C28_Witness ==
    /\ ret.op = "setsubitem" /\ ret.exc = "None"
    /\ objs[1].auto_opa_mode /\ objs[1].n = MaxPix
    /\ ret_arg[2] = black /\ ret_arg[1] = Q(-7, 4)
    /\ ~is_black_color(objs[1].data[MaxPix])
    /\ objs[1].data = ret_val.data
    /\ opas[1][MaxPix] # ret_val.opa[MaxPix]
    /\ opas[1][MaxPix - 1] # ret_val.opa[MaxPix - 1]

---------------------------------------------------------------------------
(* Claims on the frames an animation takes from its generator *)

\* the images the generator of animation 1 yields
Frames == {gens[1].frames[k] : k \in 1..Len(gens[1].frames)}

\* C29: the animation holds a copy of the frame it took: a write to the
\* animation's pixels or opacities changes no image of the generator, and
\* every frame the animation takes is the frame as the generator made it
C29_FrameCopied ==
    /\ [][ret'.op = "set"
            => \A f \in Frames : /\ objs'[f].data = objs[f].data
                                 /\ opas'[objs[f].opa] = opas[objs[f].opa]]_vars
    /\ [][ret'.op \in {"next_frame", "show"} /\ ret'.exc = "None"
            /\ gens'[1].pos # gens[1].pos
            => /\ opas'[objs'[1].opa] = FrameAt(gens[1]).opa
               /\ objs'[1].data = FrameAt(gens[1]).data]_vars

---------------------------------------------------------------------------
(* Claims on the emulated driver and its display *)

\* the constructor of the driver has received the display's message
Handshaken == emu.driver \in {"handshaken", "ready", "closed", "exited"}

\* C21: the constructor of the emulated driver returns only after the display
\* process has sent "$!Setup finished" over the pipe: no frame is sent before
\* that message was received, the constructor leaves its wait only by taking
\* the message the display put on the pipe, and while the display has not
\* sent it the constructor stays in its wait and sends nothing.
C21_BlockingHandshake ==
    /\ [](emu.sent > 0 => Handshaken)
    /\ [](emu.to_driver # <<>> =>
            /\ emu.to_driver = <<"$!Setup finished">>
            /\ emu.display \notin {"off", "setup"}
            /\ emu.driver = "await")
    /\ [][/\ emu.driver = "await" /\ emu.to_driver = <<>> =>
               emu'.driver = "await" /\ emu'.sent = 0
          /\ emu.driver = "await" /\ emu'.driver # "await" =>
               /\ emu.to_driver = <<"$!Setup finished">>
               /\ emu'.to_driver = <<>>
               /\ emu'.driver = "handshaken"
               /\ emu'.sent = 0
          /\ emu.driver = "handshaken" /\ emu'.driver # "handshaken" =>
               emu'.driver = "ready" /\ emu'.sent = 1]_vars

\* the constructor has returned, after the handshake and its first frame,
\* and the display has rendered that frame
C21_Witness ==
    /\ emu.driver = "ready"
    /\ emu.to_driver = <<>>
    /\ emu.sent = 1
    /\ emu.rendered = <<1>>

\* the frame the display rendered last, 0 before the first
LastRendered ==
    IF emu.rendered = <<>> THEN 0 ELSE emu.rendered[Len(emu.rendered)]

\* C30: the display renders frames in the order the driver sent them: the
\* frames rendered are in strictly increasing order of sending; a refresh
\* receives every pending frame, and when the pipe is found empty the frame it
\* holds is the one sent last, or none if nothing was pending; it renders
\* that frame and no other; and if from some point on the display stays open
\* and frame k is the last one sent, frame k is eventually rendered.
C30_LatestFrameRendered ==
    /\ [](\A a, b \in 1..Len(emu.rendered) :
            a < b => emu.rendered[a] < emu.rendered[b])
    /\ [](LastRendered <= emu.sent)
    /\ [][/\ emu.display = "drain" /\ emu'.display = "render" =>
               /\ emu.to_display = <<>>
               /\ emu.data \in {0, emu.sent}
               /\ emu.data = 0 => LastRendered = emu.sent
          /\ emu'.rendered # emu.rendered =>
               /\ emu.display = "render"
               /\ emu.data # 0
               /\ emu'.rendered = Append(emu.rendered, emu.data)]_vars
    /\ \A k \in 1..MaxFrames :
         <>[](emu.sent = k /\ emu.open) => <>(LastRendered = k)

\* two frames were pending at one refresh: the first and the third frame were
\* rendered, the second never
C30_Witness ==
    /\ emu.rendered = <<1, 3>>
    /\ emu.sent = 3
    /\ emu.open

=============================================================================
